---- MODULE Spec2Model ----
(***************************************************************************)
(* Verification model of the BeamNG archive utilities.                     *)
(*                                                                         *)
(*   SpecEdit    the in-place editor's run over one directory              *)
(*               (beamng/zip_edit/beamng_zip_edit_kv.py, main)             *)
(*   SpecSelect  the v3 extractor's scan / selection / row of one archive  *)
(*               (beamng/extract/beamng_zip_extract_v3_popup.py)           *)
(*   SpecParse   the tolerant JSON parser (cleanup_json_blob,              *)
(*               safe_load_json) on documents with injected noise          *)
(*   SpecTrunc   the cell sanitizer and the truncation sidecar             *)
(*   SpecAgg, SpecNorm, SpecTime, SpecName, SpecKind                       *)
(*               one call of a function: the aggregation of field values,  *)
(*               the field normalizer, parse_human_time, the renamer's     *)
(*               name synthesis and its kind detection                     *)
(*   SpecRename  the renamer's run over one directory                      *)
(*               (beamng/beamng_zip_renamer.py, main)                      *)
(*   SpecBatch   a run of the renamer or of the editor                     *)
(*   SpecExtract an extractor's run over a tree with unreadable archives   *)
(*   SpecUi, SpecHeaders, SpecPath, SpecScope, SpecBuild                   *)
(*               one call of a function: the recognition of UI             *)
(*               descriptors, determine_headers, the editor's dot-path     *)
(*               operations, filter_scope and build_edited_zip             *)
(*   SpecPool    updatebeamng's run with its thread pool                   *)
(*                                                                         *)
(* Every specification owns its own variables; the variables of the others *)
(* stay at their idle values.                                              *)
(***************************************************************************)
EXTENDS Integers, Sequences, FiniteSets, TLC

VARIABLES
    \* ---- editor (SpecEdit)
    fs,        \* the directory: path -> content
    fs0,       \* the directory before the run (history)
    kind0,     \* what each pre-run archive is: "ok" | "notargets" | "bad"
    apply,     \* args.apply
    in_place,  \* args.in_place
    pending,   \* the archives of os.walk's listing not yet visited
    cur,       \* zp, the archive being processed
    pre,       \* the content of zp when its processing began (history)
    pc,        \* position inside the loop body of main
    logs,      \* the list logs
    last,      \* how the processing of the previous archive ended (history)
    vfail,     \* the archives whose rewritten archive failed validate_zip (history)
    summary,   \* the counts printed at the end of main
    \* ---- extractor scan and selection (SpecSelect)
    entries,   \* zf.infolist(): the archive's entry paths, in archive order
    exclude,   \* the exclusion set
    row,       \* the output row of the archive
    \* ---- tolerant parser (SpecParse)
    doc,       \* the document: a sequence of tokens, noise tokens marked
    parsed,    \* what the parser returned for it
    \* ---- cell sanitizer (SpecTrunc)
    variant,   \* which extractor writes the rows
    max_len,   \* args.max_cell_chars
    rows,      \* the rows gathered
    written,   \* how many rows have been written
    csv,       \* the rows of the CSV file
    sidecar,   \* the lines of the sidecar file
    \* ---- one call of a function of the extractor (SpecAgg, SpecNorm, SpecTime)
    fn_in,     \* the argument of the call
    fn_out,    \* what the call returned
    \* ---- renamer (SpecRename)
    rdir,      \* the directory: the names in it -> the archive under that name
    rdir0,     \* the directory before the run (history)
    rplan,     \* what plan_new_name finds for each archive
    rapply,    \* args.apply
    rfiles,    \* the names of os.walk's listing not yet visited
    records,   \* the list records
    probe,     \* the last call of next_nonconflicting (history)
    rpc,       \* position in main
    printed,   \* the counts printed at the end of main
    \* ---- an extractor's run (SpecExtract)
    xvariant,  \* which extractor runs
    xzips,     \* the archives found by the walk: index -> what the archive is
    xpending,  \* the archives not yet processed
    xrows,     \* the records of the output
    xpc,       \* position in main
    \* ---- updatebeamng's run with its thread pool (SpecPool)
    zips,       \* the archives found by the walk: index -> what the archive is
    workers,    \* args.workers
    fut,        \* the state of each archive's future
    completion, \* the tasks in the order they finished (history)
    snapshot,   \* the futures finished when as_completed was entered (history)
    early,      \* those of them not yet yielded
    waiter,     \* the futures finished since, not yet yielded
    wrows,      \* the list rows
    wfiles,     \* the CSV and the sidecar: whether open, and what was written by whom
    wpc         \* position of the coordinating thread in main

evars == <<fs, fs0, kind0, apply, in_place, pending, cur, pre, pc, logs, last, vfail, summary>>
svars == <<entries, exclude, row>>
pvars == <<doc, parsed>>
tvars == <<variant, max_len, rows, written, csv, sidecar>>
fvars == <<fn_in, fn_out>>
rvars == <<rdir, rdir0, rplan, rapply, rfiles, records, probe, rpc, printed>>
xvars == <<xvariant, xzips, xpending, xrows, xpc>>
wvars == <<zips, workers, fut, completion, snapshot, early, waiter, wrows, wfiles, wpc>>
vars == <<evars, svars, pvars, tvars, fvars, rvars, xvars, wvars>>

\* What each part of the model leaves alone.
outsideEdit == <<svars, pvars, tvars, fvars, rvars, xvars, wvars>>
outsideSelect == <<evars, pvars, tvars, fvars, rvars, xvars, wvars>>
outsideParse == <<evars, svars, tvars, fvars, rvars, xvars, wvars>>
outsideTrunc == <<evars, svars, pvars, fvars, rvars, xvars, wvars>>
outsideCall == <<evars, svars, pvars, tvars, rvars, xvars, wvars>>
outsideRename == <<evars, svars, pvars, tvars, fvars, xvars, wvars>>
outsideExtract == <<evars, svars, pvars, tvars, fvars, rvars, wvars>>
outsidePool == <<evars, svars, pvars, tvars, fvars, rvars, xvars>>

Range(s) == {s[i] : i \in DOMAIN s}

(***************************************************************************)
(*                       THE IN-PLACE EDITOR                               *)
(***************************************************************************)

\* Archives of the scanned directory are named a.zip, a.edited.zip,
\* a.edited.edited.zip, ...: up to MaxEdited ".edited" components before the run.
MaxEdited == 1

Stem == "a"

\* A file name of the directory: stem, k times ".edited", then ".zip" or ".zip.bak".
ZipPath(k) == [stem |-> Stem, k |-> k, ext |-> "zip"]
NoPath == [stem |-> "", k |-> 0, ext |-> ""]

Archives == {ZipPath(k) : k \in 0..MaxEdited}

\* edited_zip = os.path.splitext(zp)[0] + ".edited.zip"
EditedPath(zp) == [zp EXCEPT !.k = zp.k + 1]

\* bak = zp + ".bak"
BakPath(zp) == [zp EXCEPT !.ext = "bak"]

Paths == Archives \cup {EditedPath(p) : p \in Archives} \cup {BakPath(p) : p \in Archives}

\* File contents.
None == [tag |-> "none", src |-> NoPath, n |-> 0]
Partial == [tag |-> "partial", src |-> NoPath, n |-> 0]
OldBak == [tag |-> "oldbak", src |-> NoPath, n |-> 0]
\* the pre-run bytes of archive p
Orig(p) == [tag |-> "zip", src |-> p, n |-> 0]
\* the archive build_edited_zip writes from an archive of content c
Edited(c) == [c EXCEPT !.n = c.n + 1]

\* What ZipFile / list_infos / filter_scope find in a file of content c.
Kind(c) ==
    IF c.tag = "zip" THEN (IF c.n = 0 THEN kind0[c.src] ELSE "ok") ELSE "bad"

LogRec(p, status, out) == [path |-> p, status |-> status, out |-> out]

NoLast == [path |-> NoPath, outcome |-> "none", pre |-> None]

EditIdle ==
    /\ fs = <<>> /\ fs0 = <<>> /\ kind0 = <<>>
    /\ apply = FALSE /\ in_place = FALSE
    /\ pending = {} /\ cur = NoPath /\ pre = None
    /\ pc = "idle" /\ logs = <<>> /\ last = NoLast /\ vfail = {}
    /\ summary = <<>>

\* The state when main enters the loop over os.walk: the listing of the
\* directory is taken once, before any archive is processed.
EditInit ==
    /\ \E tree \in SUBSET Archives, baks \in SUBSET Archives :
          /\ tree # {}
          /\ baks \subseteq tree
          /\ fs = [p \in Paths |->
                     IF p \in tree THEN Orig(p)
                     ELSE IF p.ext = "bak" /\ [p EXCEPT !.ext = "zip"] \in baks THEN OldBak
                     ELSE None]
          /\ pending = tree
          /\ kind0 \in [Archives -> {"ok", "notargets", "bad"}]
          /\ \A p \in Archives \ tree : kind0[p] = "ok"
    /\ fs0 = fs
    /\ apply \in BOOLEAN
    /\ in_place \in BOOLEAN
    /\ cur = NoPath /\ pre = None
    /\ pc = "scan"
    /\ logs = <<>>
    /\ last = NoLast
    /\ vfail = {}
    /\ summary = <<>>

\* The end of one iteration of the loop body: a record is appended, the loop
\* goes on with the next archive.
EndArchive(status, out, outcome) ==
    /\ logs' = Append(logs, LogRec(cur, status, out))
    /\ last' = [path |-> cur, outcome |-> outcome, pre |-> pre]
    /\ pc' = "scan"

\* The dry-run variant of the bug "the --apply test is missing".
ScanBody_NoDryRun(zp) ==
    /\ cur' = zp
    /\ pre' = fs[zp]
    /\ pending' = pending \ {zp}
    /\ IF fs[zp].tag = "none" \/ Kind(fs[zp]) = "bad"
       THEN /\ logs' = Append(logs, LogRec(zp, "error", NoPath))
            /\ last' = [path |-> zp, outcome |-> "openfail", pre |-> fs[zp]]
            /\ pc' = "scan"
       ELSE IF Kind(fs[zp]) = "notargets"
       THEN /\ logs' = Append(logs, LogRec(zp, "skip", NoPath))
            /\ last' = [path |-> zp, outcome |-> "skip", pre |-> fs[zp]]
            /\ pc' = "scan"
       ELSE /\ pc' = "build"
            /\ last' = NoLast
            /\ UNCHANGED logs
    /\ UNCHANGED <<fs, vfail>>

\* Lines 215-225: open the archive (a missing, corrupt or unreadable file
\* raises: the except clauses of lines 255-258 record it), list the targets,
\* skip / dry-run.
ScanBody(zp) ==
    /\ cur' = zp
    /\ pre' = fs[zp]
    /\ pending' = pending \ {zp}
    /\ IF fs[zp].tag = "none" \/ Kind(fs[zp]) = "bad"
       THEN /\ logs' = Append(logs, LogRec(zp, "error", NoPath))
            /\ last' = [path |-> zp, outcome |-> "openfail", pre |-> fs[zp]]
            /\ pc' = "scan"
       ELSE IF Kind(fs[zp]) = "notargets"
       THEN /\ logs' = Append(logs, LogRec(zp, "skip", NoPath))
            /\ last' = [path |-> zp, outcome |-> "skip", pre |-> fs[zp]]
            /\ pc' = "scan"
       ELSE IF ~apply
       THEN /\ logs' = Append(logs, LogRec(zp, "dry-run", NoPath))
            /\ last' = [path |-> zp, outcome |-> "dry-run", pre |-> fs[zp]]
            /\ pc' = "scan"
       ELSE /\ pc' = "build"
            /\ last' = NoLast
            /\ UNCHANGED logs
    /\ UNCHANGED <<fs, vfail>>

Scan ==
    /\ pc = "scan"
    /\ \E zp \in pending : ScanBody(zp)
    /\ UNCHANGED <<fs0, kind0, apply, in_place, summary>>
    /\ UNCHANGED outsideEdit

\* Lines 227-239: read the targets again and write the sibling .edited.zip.
\* ZipFile(in_path) is opened before ZipFile(out_path, "w"): a failure leaves
\* the output untouched (fail "early") or partly written (fail "late").
BuildBody ==
    \E result \in {"ok", "early", "late"} :
        IF fs[cur].tag = "none" \/ Kind(fs[cur]) = "bad" \/ result = "early"
        THEN /\ EndArchive("error", NoPath, "buildfail")
             /\ UNCHANGED fs
        ELSE IF result = "late"
        THEN /\ fs' = [fs EXCEPT ![EditedPath(cur)] = Partial]
             /\ EndArchive("error", NoPath, "buildfail")
        ELSE /\ fs' = [fs EXCEPT ![EditedPath(cur)] = Edited(fs[cur])]
             /\ pc' = "validate"
             /\ UNCHANGED <<logs, last>>

Build ==
    /\ pc = "build"
    /\ BuildBody
    /\ UNCHANGED <<fs0, kind0, apply, in_place, pending, cur, pre, vfail, summary>>
    /\ UNCHANGED outsideEdit

\* Lines 241-254: validate the rewritten archive; without --in-place the
\* archive is done.
ValidateBody ==
    \E ok \in BOOLEAN :
        IF ~ok
        THEN /\ EndArchive("error", NoPath, "invalid")
             /\ vfail' = vfail \cup {cur}
        ELSE IF in_place
        THEN /\ pc' = "rmbak"
             /\ UNCHANGED <<logs, last, vfail>>
        ELSE /\ EndArchive("edited", EditedPath(cur), "edited")
             /\ UNCHANGED vfail

Validate ==
    /\ pc = "validate"
    /\ ValidateBody
    /\ UNCHANGED <<fs, fs0, kind0, apply, in_place, pending, cur, pre, summary>>
    /\ UNCHANGED outsideEdit

\* Lines 247-249: if os.path.exists(bak): os.remove(bak)
RemoveBakBody ==
    IF fs[BakPath(cur)].tag = "none"
    THEN /\ pc' = "mvbak"
         /\ UNCHANGED <<fs, logs, last>>
    ELSE \E ok \in BOOLEAN :
            IF ok
            THEN /\ fs' = [fs EXCEPT ![BakPath(cur)] = None]
                 /\ pc' = "mvbak"
                 /\ UNCHANGED <<logs, last>>
            ELSE /\ EndArchive("error", NoPath, "swapfail")
                 /\ UNCHANGED fs

RemoveBak ==
    /\ pc = "rmbak"
    /\ RemoveBakBody
    /\ UNCHANGED <<fs0, kind0, apply, in_place, pending, cur, pre, vfail, summary>>
    /\ UNCHANGED outsideEdit

\* The bug "the original is removed instead of being kept as the backup".
MoveToBakBody_NoBackup ==
    \E ok \in BOOLEAN :
        IF ok /\ fs[cur].tag # "none"
        THEN /\ fs' = [fs EXCEPT ![cur] = None]
             /\ pc' = "mvnew"
             /\ UNCHANGED <<logs, last>>
        ELSE /\ EndArchive("error", NoPath, "swapfail")
             /\ UNCHANGED fs

\* Line 250: shutil.move(zp, bak), a rename inside one directory: it either
\* happens or raises and leaves both names as they were.
MoveToBakBody ==
    \E ok \in BOOLEAN :
        IF ok /\ fs[cur].tag # "none"
        THEN /\ fs' = [fs EXCEPT ![BakPath(cur)] = fs[cur], ![cur] = None]
             /\ pc' = "mvnew"
             /\ UNCHANGED <<logs, last>>
        ELSE /\ EndArchive("error", NoPath, "swapfail")
             /\ UNCHANGED fs

MoveToBak ==
    /\ pc = "mvbak"
    /\ MoveToBakBody
    /\ UNCHANGED <<fs0, kind0, apply, in_place, pending, cur, pre, vfail, summary>>
    /\ UNCHANGED outsideEdit

\* Lines 251-252: shutil.move(edited_zip, zp), then the "edited" record.
MoveIntoPlaceBody ==
    \E ok \in BOOLEAN :
        IF ok /\ fs[EditedPath(cur)].tag # "none"
        THEN /\ fs' = [fs EXCEPT ![cur] = fs[EditedPath(cur)], ![EditedPath(cur)] = None]
             /\ EndArchive("edited", cur, "swapped")
        ELSE /\ EndArchive("error", NoPath, "swapfail")
             /\ UNCHANGED fs

MoveIntoPlace ==
    /\ pc = "mvnew"
    /\ MoveIntoPlaceBody
    /\ UNCHANGED <<fs0, kind0, apply, in_place, pending, cur, pre, vfail, summary>>
    /\ UNCHANGED outsideEdit

CountStatus(s) == Cardinality({i \in DOMAIN logs : logs[i].status = s})

\* Lines 270-275: the summary line.
Summary ==
    /\ pc = "scan"
    /\ pending = {}
    /\ pc' = "done"
    /\ summary' = [total |-> Len(logs), edited |-> CountStatus("edited"),
                   dry |-> CountStatus("dry-run"), skip |-> CountStatus("skip"),
                   err |-> CountStatus("error")]
    /\ UNCHANGED <<fs, fs0, kind0, apply, in_place, pending, cur, pre, logs, last, vfail>>
    /\ UNCHANGED outsideEdit


(***************************************************************************)
(*                    CLAIMS ABOUT THE EDITOR                              *)
(***************************************************************************)

HasRecord(p, status) == \E i \in DOMAIN logs : logs[i].path = p /\ logs[i].status = status

\* C1 (as claimed): at the end of an --apply run, every archive whose rewritten
\* archive failed validate_zip still holds its pre-run bytes at its own path,
\* no .bak was created for it, and an error record is logged for it.
C1_ValidationFailureKeepsOriginal ==
    pc = "done" =>
        \A p \in vfail :
            /\ fs[p] = fs0[p]
            /\ fs[BakPath(p)] = fs0[BakPath(p)]
            /\ HasRecord(p, "error")

\* C2 (as claimed): the path of an archive of the tree is moved, removed or
\* written only by the swap of that archive, which the code reaches only after
\* its .edited.zip is built and validate_zip returned success (pc "mvbak" and
\* "mvnew" follow a successful Validate).
C2_OriginalWrittenOnlyAfterValidation ==
    [][\A p \in Archives :
          (pc # "idle" /\ fs0[p].tag = "zip" /\ fs'[p] # fs[p])
              => (p = cur /\ pc \in {"mvbak", "mvnew"})]_vars

\* C3: after a failed step of the --in-place swap the original path holds the
\* complete original, the complete edited archive or nothing, and the pre-edit
\* bytes are at the original path or at the .bak path; after a successful swap
\* the .bak holds the pre-edit original and the original path the edited archive.
C3_SwapSafety ==
    /\ last.outcome = "swapfail" =>
          /\ fs[last.path] \in {last.pre, Edited(last.pre), None}
          /\ (fs[last.path] = last.pre \/ fs[BakPath(last.path)] = last.pre)
    /\ last.outcome = "swapped" =>
          /\ fs[BakPath(last.path)] = last.pre
          /\ fs[last.path] = Edited(last.pre)

\* The swap failed at its last step: the original path is empty and the
\* pre-edit archive is the .bak.
C3_Witness ==
    /\ last.outcome = "swapfail"
    /\ fs[last.path] = None
    /\ fs[BakPath(last.path)] = last.pre
    /\ last.pre.tag = "zip"

\* C4: without --apply no file of the directory is created, modified, moved or
\* deleted, and every archive that has targets gets one record, a "dry-run" one.
C4_DryRunTouchesNothing ==
    (pc # "idle" /\ ~apply) =>
        /\ fs = fs0
        /\ \A i \in DOMAIN logs :
              /\ Kind(fs0[logs[i].path]) = "ok" => logs[i].status = "dry-run"
              /\ logs[i].status # "edited"
              /\ \A j \in DOMAIN logs : logs[j].path = logs[i].path => i = j
        /\ pc = "done" =>
              \A p \in Archives :
                  (fs0[p].tag = "zip" /\ kind0[p] = "ok") => HasRecord(p, "dry-run")

\* A finished dry run given --in-place too, with a "dry-run" record.
C4_Witness ==
    /\ pc = "done" /\ ~apply /\ in_place
    /\ \E i \in DOMAIN logs : logs[i].status = "dry-run"


(***************************************************************************)
(*          THE v3 EXTRACTOR: SCAN, SELECTION, ROW OF ONE ARCHIVE          *)
(***************************************************************************)

\* An entry path is the sequence of its segments: what
\* filename.replace("\\", "/").lstrip("/").split("/") yields.
MaxEntries == 3

\* The entry names an archive is made of.
EntryPool ==
    { <<"levels", "m", "info.json">>,
      <<"LEVELS", "n", "Info.JSON">>,
      <<"levels", "q", "main.level.json">>,
      <<"vehicles", "v", "info.json">>,
      <<"mod_info", "x", "info.json">>,
      <<"ui", "modules", "apps", "A", "app.json">>,
      <<"ui", "modules", "apps", "B", "sub", "App.json">>,
      <<"art", "vehicles", "z", "info.json">>,
      <<"other", "info.json">> }

\* The values of --exclude-dirs tried (lower-cased by line 469).
ExcludeChoices == { {}, {"art"}, {"levels", "art"}, {"ui", "mod_info"} }

\* str.lower() on the segments of the pool.
Lower(seg) ==
    CASE seg = "LEVELS" -> "levels"
      [] seg = "Info.JSON" -> "info.json"
      [] seg = "App.json" -> "app.json"
      [] OTHER -> seg

top_level_from_internal(path) == IF path = <<>> THEN "" ELSE Lower(path[1])

Basename(path) == IF path = <<>> THEN "" ELSE path[Len(path)]

\* The bug "the prefix is not tested".
matches_ui_app_json_AnyPrefix(path) ==
    Len(path) >= 5 /\ Lower(path[Len(path)]) = "app.json"

matches_ui_app_json(path) ==
    /\ Len(path) >= 5
    /\ Lower(path[1]) = "ui" /\ Lower(path[2]) = "modules" /\ Lower(path[3]) = "apps"
    /\ Lower(path[Len(path)]) = "app.json"

ui_name_from_app_json(path) == IF Len(path) >= 5 THEN path[4] ELSE ""

\* The inner loop of collect_level_vehicle_names on one entry: the segment
\* after the first segment equal (case-insensitively) to dir.
RECURSIVE NameAfterIn(_, _, _)
NameAfterIn(parts, dir, i) ==
    IF i >= Len(parts) THEN ""
    ELSE IF Lower(parts[i]) = dir THEN parts[i + 1]
    ELSE NameAfterIn(parts, dir, i + 1)

\* The outer loop: the first entry, in archive order, that gives a name.
RECURSIVE NameAfter(_, _, _)
NameAfter(infolist, dir, k) ==
    IF k > Len(infolist) THEN ""
    ELSE IF NameAfterIn(infolist[k], dir, 1) # "" THEN NameAfterIn(infolist[k], dir, 1)
    ELSE NameAfter(infolist, dir, k + 1)

collect_level_vehicle_names(infolist) ==
    [map_name |-> NameAfter(infolist, "levels", 1),
     vehicle_name |-> NameAfter(infolist, "vehicles", 1)]

\* The bug "the exclusion test is missing".
collect_json_candidates_NoExclusion(infolist, excl) ==
    LET IsInfo(ip) == Lower(Basename(ip)) = "info.json"
        IsApp(ip) == ~IsInfo(ip) /\ matches_ui_app_json(ip)
    IN [info_paths |-> SelectSeq(infolist, IsInfo), app_paths |-> SelectSeq(infolist, IsApp)]

collect_json_candidates(infolist, excl) ==
    LET Seen(ip) == ip # <<>> /\ top_level_from_internal(ip) \notin excl
        IsInfo(ip) == Seen(ip) /\ Lower(Basename(ip)) = "info.json"
        IsApp(ip) == Seen(ip) /\ ~IsInfo(ip) /\ matches_ui_app_json(ip)
    IN [info_paths |-> SelectSeq(infolist, IsInfo), app_paths |-> SelectSeq(infolist, IsApp)]

categorize_info_paths(paths) ==
    LET IsLevels(p) == top_level_from_internal(p) = "levels"
        IsVehicles(p) == top_level_from_internal(p) = "vehicles"
        IsModInfo(p) == top_level_from_internal(p) = "mod_info"
        IsOther(p) == ~IsLevels(p) /\ ~IsVehicles(p) /\ ~IsModInfo(p)
    IN [levels |-> SelectSeq(paths, IsLevels), vehicles |-> SelectSeq(paths, IsVehicles),
        mod_info |-> SelectSeq(paths, IsModInfo), other |-> SelectSeq(paths, IsOther)]

Selection(rule, info, apps) == [rule |-> rule, info |-> info, apps |-> apps]

\* The bug "vehicles is tested before levels".
select_jsons_VehiclesFirst(info_paths, app_paths) ==
    LET c == categorize_info_paths(info_paths) IN
    IF c.vehicles # <<>> THEN Selection("vehicles", c.vehicles \o c.mod_info, <<>>)
    ELSE IF c.levels # <<>> THEN Selection("levels", c.levels \o c.mod_info, <<>>)
    ELSE IF app_paths # <<>> THEN Selection("ui", c.mod_info, app_paths)
    ELSE IF c.mod_info # <<>> THEN Selection("mod_info", c.mod_info, <<>>)
    ELSE Selection("no-json-file", <<>>, <<>>)

\* The bug "the ui rule returns no app.json".
select_jsons_DropApps(info_paths, app_paths) ==
    LET c == categorize_info_paths(info_paths) IN
    IF c.levels # <<>> THEN Selection("levels", c.levels \o c.mod_info, <<>>)
    ELSE IF c.vehicles # <<>> THEN Selection("vehicles", c.vehicles \o c.mod_info, <<>>)
    ELSE IF app_paths # <<>> THEN Selection("ui", c.mod_info, <<>>)
    ELSE IF c.mod_info # <<>> THEN Selection("mod_info", c.mod_info, <<>>)
    ELSE Selection("no-json-file", <<>>, <<>>)

select_jsons(info_paths, app_paths) ==
    LET c == categorize_info_paths(info_paths) IN
    IF c.levels # <<>> THEN Selection("levels", c.levels \o c.mod_info, <<>>)
    ELSE IF c.vehicles # <<>> THEN Selection("vehicles", c.vehicles \o c.mod_info, <<>>)
    ELSE IF app_paths # <<>> THEN Selection("ui", c.mod_info, app_paths)
    ELSE IF c.mod_info # <<>> THEN Selection("mod_info", c.mod_info, <<>>)
    ELSE Selection("no-json-file", <<>>, <<>>)

\* The sequence of the distinct members of s, in the order of first occurrence.
RECURSIVE Distinct(_)
Distinct(s) ==
    IF s = <<>> THEN <<>>
    ELSE LET d == Distinct(SubSeq(s, 1, Len(s) - 1))
             x == s[Len(s)]
         IN IF x \in Range(d) THEN d ELSE Append(d, x)

\* The "authors" value of the document stored at an entry path.
AuthorOf(path) ==
    CASE top_level_from_internal(path) = "levels" -> "Alice"
      [] top_level_from_internal(path) = "mod_info" -> "Alice"
      [] top_level_from_internal(path) = "vehicles" -> "Bob"
      [] top_level_from_internal(path) = "ui" -> "Carol"
      [] OTHER -> "Dan"

\* Lines 512-534 for the "authors" field: one value per selected document,
\* aggregated by aggregate_field_values (distinct values, first-seen order).
AggregatedAuthors(selected_info, selected_apps) ==
    LET docs == selected_info \o selected_apps
    IN Distinct([i \in DOMAIN docs |-> AuthorOf(docs[i])])

NoRow ==
    [map_name |-> "", vehicle_name |-> "",
     info_json_paths |-> <<>>, info_json_count |-> 0,
     app_json_paths |-> <<>>, app_json_count |-> 0,
     json_rule_used |-> "", top_level_dir |-> "",
     selected_info |-> <<>>, selected_apps |-> <<>>, json_selected_count |-> 0,
     ui_name |-> <<>>, authors |-> <<>>]

\* Lines 485-534: the row of one archive.
RowOf(infolist, excl) ==
    LET names == collect_level_vehicle_names(infolist)
        cand == collect_json_candidates(infolist, excl)
        sel == select_jsons(cand.info_paths, cand.app_paths)
    IN [map_name |-> names.map_name, vehicle_name |-> names.vehicle_name,
        info_json_paths |-> cand.info_paths, info_json_count |-> Len(cand.info_paths),
        app_json_paths |-> cand.app_paths, app_json_count |-> Len(cand.app_paths),
        json_rule_used |-> sel.rule, top_level_dir |-> sel.rule,
        selected_info |-> sel.info, selected_apps |-> sel.apps,
        json_selected_count |-> Len(sel.info) + Len(sel.apps),
        ui_name |-> IF sel.rule = "ui" /\ sel.apps # <<>>
                    THEN Distinct([i \in DOMAIN sel.apps |-> ui_name_from_app_json(sel.apps[i])])
                    ELSE <<>>,
        authors |-> AggregatedAuthors(sel.info, sel.apps)]

SelectIdle == entries = <<>> /\ exclude = {} /\ row = NoRow


(***************************************************************************)
(*                 CLAIMS ABOUT SCAN AND SELECTION                         *)
(***************************************************************************)

Processed == row # NoRow

CandidatesUnder(top) ==
    {q \in Range(row.info_json_paths) : top_level_from_internal(q) = top}

AppCandidates == Range(row.app_json_paths)

\* The rule the priority order levels, vehicles, ui, mod_info, none asks for.
ExpectedRule ==
    IF CandidatesUnder("levels") # {} THEN "levels"
    ELSE IF CandidatesUnder("vehicles") # {} THEN "vehicles"
    ELSE IF AppCandidates # {} THEN "ui"
    ELSE IF CandidatesUnder("mod_info") # {} THEN "mod_info"
    ELSE "no-json-file"

\* C5: the selection is the one of the first rule that fires in the order
\* levels, vehicles, ui, mod_info, none: all info.json of the rule's compartment
\* plus all mod_info info.json, the app.json only under the ui rule, nothing else.
C5_SelectionPriority ==
    Processed =>
        /\ row.json_rule_used = ExpectedRule
        /\ Range(row.selected_info) =
              CASE ExpectedRule = "levels" -> CandidatesUnder("levels") \cup CandidatesUnder("mod_info")
                [] ExpectedRule = "vehicles" -> CandidatesUnder("vehicles") \cup CandidatesUnder("mod_info")
                [] ExpectedRule = "ui" -> CandidatesUnder("mod_info")
                [] ExpectedRule = "mod_info" -> CandidatesUnder("mod_info")
                [] OTHER -> {}
        /\ Range(row.selected_apps) = IF ExpectedRule = "ui" THEN AppCandidates ELSE {}
        /\ Len(row.selected_info) =
              Cardinality({i \in DOMAIN row.info_json_paths :
                              row.info_json_paths[i] \in Range(row.selected_info)})
        /\ row.json_selected_count = Len(row.selected_info) + Len(row.selected_apps)

\* Levels, vehicles and app.json candidates all present: the levels rule wins.
C5_Witness ==
    /\ Processed
    /\ CandidatesUnder("levels") # {} /\ CandidatesUnder("vehicles") # {} /\ AppCandidates # {}
    /\ row.json_rule_used = "levels"

\* C6: the chosen entries are empty exactly when the tag is "no-json-file", and
\* every chosen entry is one of the candidates.
C6_SelectionNonEmpty ==
    Processed =>
        /\ (row.selected_info \o row.selected_apps = <<>>) <=> (row.json_rule_used = "no-json-file")
        /\ Range(row.selected_info) \subseteq Range(row.info_json_paths)
        /\ Range(row.selected_apps) \subseteq Range(row.app_json_paths)

\* The ui rule with no mod_info document: the chosen entries are app.json only.
C6_Witness ==
    /\ Processed
    /\ row.json_rule_used = "ui"
    /\ row.selected_info = <<>>
    /\ row.selected_apps # <<>>

\* The entries of the archive outside the excluded top-level segments.
VisibleEntries ==
    LET Visible(ip) == top_level_from_internal(ip) \notin exclude
    IN SelectSeq(entries, Visible)

\* C7 (as claimed): the row is the row of the archive without its excluded
\* entries, map_name and vehicle_name included.
C7_RowIgnoresExcluded ==
    Processed => row = RowOf(VisibleEntries, exclude)

JsonPart(r) == [r EXCEPT !.map_name = "", !.vehicle_name = ""]

\* C7 (amended): every value of the row except map_name and vehicle_name is the
\* one of the archive without its excluded entries.
C7_JsonPartIgnoresExcluded ==
    Processed => JsonPart(row) = JsonPart(RowOf(VisibleEntries, exclude))

\* An archive with an excluded info.json next to a selected document.
C7_Witness ==
    /\ Processed
    /\ row.json_rule_used # "no-json-file"
    /\ \E i \in DOMAIN entries :
          /\ top_level_from_internal(entries[i]) \in exclude
          /\ Lower(Basename(entries[i])) = "info.json"

SelectInit == entries = <<>> /\ exclude \in ExcludeChoices /\ row = NoRow

\* The archive under inspection gets one more entry.
AddEntry ==
    /\ row = NoRow
    /\ Len(entries) < MaxEntries
    /\ \E e \in EntryPool : entries' = Append(entries, e)
    /\ UNCHANGED <<exclude, row>>
    /\ UNCHANGED outsideSelect

\* One iteration of main's loop over the archives.
ProcessZip ==
    /\ row = NoRow
    /\ row' = RowOf(entries, exclude)
    /\ UNCHANGED <<entries, exclude>>
    /\ UNCHANGED outsideSelect

(***************************************************************************)
(*        THE TOLERANT PARSER: cleanup_json_blob AND safe_load_json        *)
(***************************************************************************)

\* A text is a sequence of characters, a character a one-character string;
\* U+FEFF, U+FFFD and the Latin-1 characters above 0x7F carry their code
\* point as name.  A byte string is a sequence of byte units: an ASCII byte
\* is written as its character, BOMBytes is the three bytes EF BB BF and
\* HighByte the single byte E9 (not valid UTF-8 before an ASCII byte).
LF == "\n"
Q == "\""
BOMBytes == "EFBBBF"
HighByte == "E9"

\* The member of a one-element set: TheValue({ F(x) : x \in {e} }) is F(e)
\* with e worked out once.
TheValue(S) == CHOOSE x \in S : TRUE

\* raw_bytes.decode("utf-8", errors="replace")
DecodeUtf8(raw) ==
    [i \in DOMAIN raw |->
        CASE raw[i] = BOMBytes -> "uFEFF"
          [] raw[i] = HighByte -> "uFFFD"
          [] OTHER -> raw[i]]

\* raw_bytes.decode("latin-1", errors="replace")
RECURSIVE DecodeLatin1(_)
DecodeLatin1(raw) ==
    IF raw = <<>> THEN <<>>
    ELSE (CASE raw[1] = BOMBytes -> <<"u00EF", "u00BB", "u00BF">>
            [] raw[1] = HighByte -> <<"u00E9">>
            [] OTHER -> <<raw[1]>>) \o DecodeLatin1(Tail(raw))

\* The characters of the alphabet that the regex class \s matches, which
\* are also the ones json.loads skips between tokens.
WS == {" ", LF}

\* The least index j >= i of t whose character is not in S; Len(t) + 1 if none.
FirstNotIn(t, i, S) ==
    LET c == {j \in i..Len(t) : t[j] \notin S}
    IN IF c = {} THEN Len(t) + 1 ELSE CHOOSE j \in c : \A k \in c : j <= k

\* The least index j >= i of t whose character is ch; Len(t) + 1 if none.
FirstIs(t, i, ch) ==
    LET c == {j \in i..Len(t) : t[j] = ch}
    IN IF c = {} THEN Len(t) + 1 ELSE CHOOSE j \in c : \A k \in c : j <= k

\* blob.lstrip of U+FEFF, done when blob[0] is U+FEFF
StripBOM(t) ==
    IF t # <<>> /\ t[1] = "uFEFF"
    THEN SubSeq(t, FirstNotIn(t, 1, {"uFEFF"}), Len(t))
    ELSE t

\* Where a match of ^\s*//.*$ (MULTILINE) that starts at index i ends
\* (the index after its last character); 0 when there is no match at i.
\* \s* can only stop at the first non-blank character, which must open "//";
\* .* runs to the end of that line.
LineCommentEnd(t, i) ==
    LET j == FirstNotIn(t, i, WS) IN
    IF /\ (i = 1 \/ t[i - 1] = LF)
       /\ j + 1 <= Len(t) /\ t[j] = "/" /\ t[j + 1] = "/"
    THEN FirstIs(t, j, LF)
    ELSE 0

\* re.sub(r"^\s*//.*$", "", blob, flags=re.MULTILINE), scanning from index i
RECURSIVE RemoveLineComments(_, _)
RemoveLineComments(t, i) ==
    IF i > Len(t) THEN <<>>
    ELSE TheValue({ IF e # 0 THEN RemoveLineComments(t, e)
                    ELSE <<t[i]>> \o RemoveLineComments(t, i + 1) :
                    e \in {LineCommentEnd(t, i)} })

\* Where the match of /\*.*?\*/ (DOTALL) that starts at index i ends; 0 when
\* there is no match at i.  The match is the shortest one: it ends at the
\* first "*/" from index i + 2 on.
BlockCommentEnd(t, i) ==
    LET c == {j \in (i + 2)..(Len(t) - 1) : t[j] = "*" /\ t[j + 1] = "/"} IN
    IF i + 1 <= Len(t) /\ t[i] = "/" /\ t[i + 1] = "*" /\ c # {}
    THEN (CHOOSE j \in c : \A k \in c : j <= k) + 2
    ELSE 0

\* re.sub(r"/\*.*?\*/", "", blob, flags=re.DOTALL), scanning from index i
RECURSIVE RemoveBlockComments(_, _)
RemoveBlockComments(t, i) ==
    IF i > Len(t) THEN <<>>
    ELSE TheValue({ IF e # 0 THEN RemoveBlockComments(t, e)
                    ELSE <<t[i]>> \o RemoveBlockComments(t, i + 1) :
                    e \in {BlockCommentEnd(t, i)} })

\* re.sub(r",\s*([}\]])", r"\1", blob), one pass, scanning from index i
RECURSIVE RemoveTrailingCommas(_, _)
RemoveTrailingCommas(t, i) ==
    IF i > Len(t) THEN <<>>
    ELSE TheValue({ IF t[i] = "," /\ j <= Len(t) /\ t[j] \in {"}", "]"}
                    THEN <<t[j]>> \o RemoveTrailingCommas(t, j + 1)
                    ELSE <<t[i]>> \o RemoveTrailingCommas(t, i + 1) :
                    j \in {FirstNotIn(t, i + 1, WS)} })

\* The loop "while prev != blob"
RECURSIVE FixTrailingCommas(_)
FixTrailingCommas(t) ==
    TheValue({ IF u = t THEN t ELSE FixTrailingCommas(u) : u \in {RemoveTrailingCommas(t, 1)} })

cleanup_json_blob(blob) ==
    TheValue({ FixTrailingCommas(c) :
        c \in { RemoveBlockComments(b, 1) :
            b \in { RemoveLineComments(a, 1) :
                a \in {StripBOM(blob)} } } })

\* A parsed JSON value.  t is "obj", "arr", "str", "num", "true", "false" or
\* "null"; s holds the characters of a string or a number; an object is its
\* keys in insertion order with items[k] the value of keys[k]; an array is
\* its items.  NoneVal is Python's None as a return value.
JVal(t, s, keys, items) == [t |-> t, s |-> s, keys |-> keys, items |-> items]
NoneVal == JVal("none", <<>>, <<>>, <<>>)
EmptyObj == JVal("obj", <<>>, <<>>, <<>>)

\* s[end:end+1]: the character at index i, "" past the end.
At(t, i) == IF i \in DOMAIN t THEN t[i] ELSE ""

Digits == {"1", "2"}

\* What a scanning step returns: the value and the index after it, or the
\* fact that it raised.
Fail == [ok |-> FALSE, v |-> NoneVal, i |-> 0]
Ok(v, i) == [ok |-> TRUE, v |-> v, i |-> i]

\* dict assignment: a repeated key keeps its place and takes the new value.
DictSet(keys, items, k, v) ==
    IF \E n \in DOMAIN keys : keys[n] = k
    THEN [keys |-> keys,
          items |-> [n \in DOMAIN items |-> IF keys[n] = k THEN v ELSE items[n]]]
    ELSE [keys |-> Append(keys, k), items |-> Append(items, v)]

\* json.decoder.scanstring from the opening quote at index i (strict mode):
\* a control character inside the string is an error.  The alphabet has no
\* backslash.
ParseString(t, i) ==
    LET close == FirstIs(t, i + 1, Q) IN
    IF close > Len(t) \/ \E j \in (i + 1)..(close - 1) : t[j] = LF
    THEN Fail
    ELSE Ok(JVal("str", SubSeq(t, i + 1, close - 1), <<>>, <<>>), close + 1)

\* A literal name spelled out at index i.
Spells(t, i, name) == \A k \in DOMAIN name : At(t, i + k - 1) = name[k]

RECURSIVE ParseValue(_, _)
RECURSIVE ParseMembers(_, _, _, _)
RECURSIVE ParseElems(_, _, _)

\* json.scanner: scan_once at index i
ParseValue(t, i) ==
    LET ch == At(t, i) IN
    CASE ch = Q -> ParseString(t, i)
      [] ch = "{" ->
            TheValue({ IF At(t, j) = "}" THEN Ok(EmptyObj, j + 1)
                       ELSE IF At(t, j) = Q THEN ParseMembers(t, j, <<>>, <<>>)
                       ELSE Fail :
                       j \in {FirstNotIn(t, i + 1, WS)} })
      [] ch = "[" ->
            TheValue({ IF At(t, j) = "]" THEN Ok(JVal("arr", <<>>, <<>>, <<>>), j + 1)
                       ELSE ParseElems(t, j, <<>>) :
                       j \in {FirstNotIn(t, i + 1, WS)} })
      [] ch \in Digits ->
            TheValue({ Ok(JVal("num", SubSeq(t, i, e - 1), <<>>, <<>>), e) :
                       e \in {FirstNotIn(t, i, Digits)} })
      [] ch = "n" /\ Spells(t, i, <<"n", "u", "l", "l">>) ->
            Ok(JVal("null", <<>>, <<>>, <<>>), i + 4)
      [] ch = "t" /\ Spells(t, i, <<"t", "r", "u", "e">>) ->
            Ok(JVal("true", <<>>, <<>>, <<>>), i + 4)
      [] OTHER -> Fail

\* json.decoder.JSONObject: the pairs from the key whose quote is at index j,
\* keys and items being the pairs read so far.  k is the key, v the value.
ParseMembers(t, j, keys, items) ==
    TheValue({
        IF ~k.ok \/ At(t, FirstNotIn(t, k.i, WS)) # ":" THEN Fail
        ELSE TheValue({
            IF ~v.ok THEN Fail
            ELSE TheValue({
                IF At(t, nxt) = "}" THEN Ok(JVal("obj", <<>>, d.keys, d.items), nxt + 1)
                ELSE IF At(t, nxt) = "," /\ At(t, FirstNotIn(t, nxt + 1, WS)) = Q
                     THEN ParseMembers(t, FirstNotIn(t, nxt + 1, WS), d.keys, d.items)
                ELSE Fail :
                d \in {DictSet(keys, items, k.v.s, v.v)},
                nxt \in {FirstNotIn(t, v.i, WS)} }) :
            v \in {ParseValue(t, FirstNotIn(t, FirstNotIn(t, k.i, WS) + 1, WS))} }) :
        k \in {ParseString(t, j)} })

\* json.decoder.JSONArray: the elements from the value at index j, items
\* being the elements read so far.
ParseElems(t, j, items) ==
    TheValue({
        IF ~v.ok THEN Fail
        ELSE TheValue({
            IF At(t, nxt) = "]"
            THEN Ok(JVal("arr", <<>>, <<>>, Append(items, v.v)), nxt + 1)
            ELSE IF At(t, nxt) = ","
                 THEN ParseElems(t, FirstNotIn(t, nxt + 1, WS), Append(items, v.v))
            ELSE Fail :
            nxt \in {FirstNotIn(t, v.i, WS)} }) :
        v \in {ParseValue(t, j)} })

\* json.loads(text): a leading U+FEFF is rejected, blanks around the value
\* are skipped, anything after it is "Extra data".
json_loads(t) ==
    IF At(t, 1) = "uFEFF" THEN Fail
    ELSE TheValue({ IF r.ok /\ FirstNotIn(t, r.i, WS) = Len(t) + 1 THEN r ELSE Fail :
                    r \in {ParseValue(t, FirstNotIn(t, 1, WS))} })

\* The four attempts of the loop over ("utf-8", "latin-1"), in order.
Attempts(raw) ==
    TheValue({
        TheValue({ <<json_loads(u), json_loads(cu), json_loads(l), json_loads(cl)>> :
                   cu \in {cleanup_json_blob(u)}, cl \in {cleanup_json_blob(l)} }) :
        u \in {DecodeUtf8(raw)}, l \in {DecodeLatin1(raw)} })

\* The value of the first attempt that does not raise; NoneVal if all raise.
FirstParsed(raw) ==
    TheValue({ IF a[1].ok THEN a[1].v
               ELSE IF a[2].ok THEN a[2].v
               ELSE IF a[3].ok THEN a[3].v
               ELSE IF a[4].ok THEN a[4].v
               ELSE NoneVal :
               a \in {Attempts(raw)} })

\* The bug "the isinstance(obj, dict) test is missing".
safe_load_json_AnyValue(raw_bytes) == FirstParsed(raw_bytes)

\* The extractor's safe_load_json: a dict or None.
safe_load_json(raw_bytes) ==
    TheValue({ IF obj.t = "obj" THEN obj ELSE NoneVal : obj \in {FirstParsed(raw_bytes)} })

\* The editor's safe_load_json: a dict, {} where the extractor's gives None.
safe_load_json_kv(raw) ==
    TheValue({ IF j.t = "obj" THEN j ELSE EmptyObj : j \in {FirstParsed(raw)} })

\* bool(v) is False
Falsy(v) ==
    \/ v.t \in {"none", "null", "false"}
    \/ v.t \in {"obj", "arr", "str"} /\ v.s = <<>> /\ v.keys = <<>> /\ v.items = <<>>

\* "safe_load_json(data) or {}": what the extractor's main goes on with.
LoadOrEmpty(res) == IF Falsy(res) THEN EmptyObj ELSE res

\* ---- documents with injected noise

MaxNoise == 2

\* A document is a sequence of tokens; a noise token is one that a person
\* repairing the document by hand would delete.
Tok(text) == [noise |-> FALSE, text |-> text]
Noise(text) == [noise |-> TRUE, text |-> text]
Str(cs) == <<Q>> \o cs \o <<Q>>
Doc(texts) == [i \in DOMAIN texts |-> Tok(texts[i])]

\* The documents before any noise is added: objects (with strings that hold
\* ",}" ",]" and "/*x*/", a nested list, a repeated key, a byte that is not
\* UTF-8), values that are not objects, and a document cut short.
BaseDocs ==
    { Doc(<< <<"{">>, Str(<<"a">>), <<":">>, Str(<<"b">>), <<"}">> >>),
      Doc(<< <<"{">>, Str(<<"a">>), <<":">>, Str(<<",", "}">>), <<"}">> >>),
      Doc(<< <<"{">>, Str(<<"a">>), <<":">>, Str(<<",", "]">>), <<"}">> >>),
      Doc(<< <<"{">>, Str(<<"a">>), <<":">>, Str(<<"/", "*", "x", "*", "/">>), <<"}">> >>),
      Doc(<< <<"{">>, Str(<<"a">>), <<":">>, Str(<<HighByte>>), <<"}">> >>),
      Doc(<< <<"{">>, Str(<<"a">>), <<":">>, <<"[">>, <<"1">>, <<",">>, <<"2">>, <<"]">>, <<"}">> >>),
      Doc(<< <<"{">>, Str(<<"a">>), <<":">>, <<"1">>, <<",">>, Str(<<"a">>), <<":">>, <<"2">>, <<"}">> >>),
      Doc(<< <<"{">>, <<"}">> >>),
      Doc(<< <<"[">>, <<"1">>, <<"]">> >>),
      Doc(<< Str(<<"a">>) >>),
      Doc(<< <<"1", "2">> >>),
      Doc(<< <<"n", "u", "l", "l">> >>),
      Doc(<< <<"t", "r", "u", "e">> >>),
      Doc(<< <<"{">>, Str(<<"a">>) >>) }

BOMTok == Noise(<<BOMBytes>>)
TrailingCommaToks == { Noise(<<",">>), Noise(<<",", " ">>) }
BlockCommentTok == Noise(<<"/", "*", "c", "*", "/">>)
LineCommentTok == Noise(<<LF, "/", "/", "c", LF>>)

\* The bytes of a document: its tokens one after the other.
RECURSIVE Raw(_)
Raw(d) == IF d = <<>> THEN <<>> ELSE d[1].text \o Raw(Tail(d))

\* The document with the noise stripped by hand.
Stripped(d) == SelectSeq(d, LAMBDA tk : ~tk.noise)

NoiseCount(d) == Cardinality({i \in DOMAIN d : d[i].noise})

Insert(d, p, tk) == SubSeq(d, 1, p - 1) \o <<tk>> \o SubSeq(d, p, Len(d))

\* The places where a comment can go: anywhere between two tokens, after a
\* leading byte order mark.
CommentPlaces(d) == {p \in 1..(Len(d) + 1) : p = 1 => (d = <<>> \/ d[1] # BOMTok)}

NotParsed == [done |-> FALSE, res |-> NoneVal, used |-> NoneVal, kv |-> NoneVal]

ParseIdle == doc = <<>> /\ parsed = NotParsed

ParseInit == doc \in BaseDocs /\ parsed = NotParsed

\* The file gets a byte order mark in front.
AddBOM ==
    /\ ~parsed.done /\ NoiseCount(doc) < MaxNoise
    /\ doc[1] # BOMTok
    /\ doc' = <<BOMTok>> \o doc
    /\ UNCHANGED parsed
    /\ UNCHANGED outsideParse

\* A comma is put in front of a closing brace or bracket.
AddTrailingComma ==
    /\ ~parsed.done /\ NoiseCount(doc) < MaxNoise
    /\ \E p \in DOMAIN doc, tk \in TrailingCommaToks :
          /\ doc[p] \in {Tok(<<"}">>), Tok(<<"]">>)}
          /\ doc' = Insert(doc, p, tk)
    /\ UNCHANGED parsed
    /\ UNCHANGED outsideParse

\* A /* */ comment is put between two tokens.
AddBlockComment ==
    /\ ~parsed.done /\ NoiseCount(doc) < MaxNoise
    /\ \E p \in CommentPlaces(doc) : doc' = Insert(doc, p, BlockCommentTok)
    /\ UNCHANGED parsed
    /\ UNCHANGED outsideParse

\* A line that holds only a // comment is put between two tokens.
AddLineComment ==
    /\ ~parsed.done /\ NoiseCount(doc) < MaxNoise
    /\ \E p \in CommentPlaces(doc) : doc' = Insert(doc, p, LineCommentTok)
    /\ UNCHANGED parsed
    /\ UNCHANGED outsideParse

\* The file is read and handed to safe_load_json.
Parse ==
    /\ ~parsed.done
    /\ \E data \in {Raw(doc)} :
          \E res \in {safe_load_json(data)}, kv \in {safe_load_json_kv(data)} :
             parsed' = [done |-> TRUE, res |-> res, used |-> LoadOrEmpty(res), kv |-> kv]
    /\ UNCHANGED doc
    /\ UNCHANGED outsideParse


(***************************************************************************)
(*                    CLAIMS ABOUT THE TOLERANT PARSER                     *)
(***************************************************************************)

HasNoise(d) == \E i \in DOMAIN d : d[i].noise

\* C8  Tolerant parser: for every byte string, parsing yields either a
\* key-value mapping or the empty result; whenever every decode/repair
\* attempt fails, or the value parsed first is not a mapping (list, string,
\* number, boolean, null), the value the caller goes on with is the empty
\* mapping; otherwise it is the mapping parsed first.  (Both the extractor's
\* and the editor's safe_load_json.)
C8_TolerantParser ==
    parsed.done =>
        \A a \in {Attempts(Raw(doc))}, first \in {FirstParsed(Raw(doc))} :
            /\ parsed.res.t \in {"obj", "none"}
            /\ parsed.used.t = "obj"
            /\ parsed.kv.t = "obj"
            /\ ((\A n \in 1..4 : ~a[n].ok) \/ first.t # "obj")
                  => parsed.res = NoneVal /\ parsed.used = EmptyObj /\ parsed.kv = EmptyObj
            /\ first.t = "obj"
                  => parsed.res = first /\ parsed.used = first /\ parsed.kv = first

\* A document whose first successful parse gave a list has been handed to
\* the parser, and the caller goes on with the empty mapping.
C8_Witness ==
    /\ parsed.done
    /\ HasNoise(doc)
    /\ FirstParsed(Raw(doc)).t = "arr"
    /\ parsed.used = EmptyObj

\* C9  Parser round-trip: for every document that contains trailing-comma or
\* comment noise (leading BOM, full-line // comments, /* */ block comments,
\* trailing commas before } or ]), parsing the noisy document yields the same
\* mapping as parsing the same document with that noise stripped by hand,
\* including when string values themselves contain ",}" ",]" or "/* */".
C9_NoisyEqualsStripped ==
    (parsed.done /\ HasNoise(doc)) =>
        parsed.used = LoadOrEmpty(safe_load_json(Raw(Stripped(doc))))

(***************************************************************************)
(*            THE CELL SANITIZER AND THE TRUNCATION SIDECAR                *)
(***************************************************************************)

\* A field value is a text over ValChars, at most MaxValLen characters long;
\* --max-cell-chars ranges over 0..MaxBudget (0 switches truncation off).
MaxValLen == 3
MaxBudget == 2
ValChars == {"a", " ", LF}
Values == UNION { [1..n -> ValChars] : n \in 0..MaxValLen }

\* The one-character marker appended to a truncated cell (U+2026).
Ellipsis == "u2026"

\* The variants of the writer: "v3" is beamng_zip_extract_v3_popup.py
\* (sanitize_cell), "tracking" is updatebeamng.py (sanitize_with_tracking),
\* "v2_fixed" is beamng_zip_extract_v2_progress_rules_fixed.py (sanitize_cell)
\* and "extractall" is the long-form extractallfromzips.py
\* (sanitize_with_tracking).
Variants == {"v3", "tracking", "v2_fixed", "extractall"}

\* The marker of v2_fixed and extractall, as their source text spells it:
\* the three characters U+00E2 U+20AC U+00A6.
Mojibake == <<"u00E2", "u20AC", "u00A6">>

\* make_row_id gives every archive path its own identifier.
RowIds == { <<"r", "1">>, <<"r", "2">> }

Fields == {"row_id", "text"}

\* re.sub(r"\s+", " ", s) on a text whose blanks are all " "
RECURSIVE CollapseBlanks(_)
CollapseBlanks(s) ==
    IF Len(s) <= 1 THEN s
    ELSE IF s[1] = " " /\ s[2] = " " THEN CollapseBlanks(Tail(s))
    ELSE <<s[1]>> \o CollapseBlanks(Tail(s))

\* str.strip()
Strip(s) ==
    LET keep == {i \in DOMAIN s : s[i] \notin WS} IN
    IF keep = {} THEN <<>>
    ELSE SubSeq(s, CHOOSE i \in keep : \A j \in keep : i <= j,
                   CHOOSE i \in keep : \A j \in keep : i >= j)

\* Lines 227-228 of sanitize_cell, and clean_single_line of updatebeamng.py:
\* newlines (and tabs) become spaces, runs of blanks one space, ends stripped.
clean_single_line(s) ==
    Strip(CollapseBlanks([i \in DOMAIN s |-> IF s[i] = LF THEN " " ELSE s[i]]))

\* s[: max_len - 1] + the marker
Cut(s, maxlen) == SubSeq(s, 1, maxlen - 1) \o <<Ellipsis>>

\* sanitize_cell of the v3 extractor: (s, trunc, orig, len(orig))
sanitize_cell(s, maxlen) ==
    TheValue({ IF maxlen # 0 /\ Len(c) > maxlen
               THEN [cell |-> Cut(c, maxlen), trunc |-> TRUE, orig |-> c, len |-> Len(c)]
               ELSE [cell |-> c, trunc |-> FALSE, orig |-> c, len |-> Len(c)] :
               c \in {clean_single_line(s)} })

\* sanitize_with_tracking of updatebeamng.py:
\* (cleaned, was_truncated, original, len(original))
sanitize_with_tracking(val, maxlen) ==
    TheValue({ IF maxlen # 0 /\ maxlen > 0 /\ Len(c) > maxlen
               THEN [cell |-> Cut(c, maxlen), trunc |-> TRUE, orig |-> val, len |-> Len(val)]
               ELSE [cell |-> c, trunc |-> FALSE, orig |-> val, len |-> Len(val)] :
               c \in {clean_single_line(val)} })

\* s[: max_len - 1] + the marker, in v2_fixed and extractall
CutMojibake(s, maxlen) == SubSeq(s, 1, maxlen - 1) \o Mojibake

\* sanitize_cell of beamng_zip_extract_v2_progress_rules_fixed.py
sanitize_cell_v2_fixed(s, maxlen) ==
    TheValue({ IF maxlen # 0 /\ Len(c) > maxlen
               THEN [cell |-> CutMojibake(c, maxlen), trunc |-> TRUE, orig |-> c, len |-> Len(c)]
               ELSE [cell |-> c, trunc |-> FALSE, orig |-> c, len |-> Len(c)] :
               c \in {clean_single_line(s)} })

\* sanitize_with_tracking of extractallfromzips.py
sanitize_with_tracking_extractall(val, maxlen) ==
    TheValue({ IF maxlen # 0 /\ maxlen > 0 /\ Len(c) > maxlen
               THEN [cell |-> CutMojibake(c, maxlen), trunc |-> TRUE, orig |-> val, len |-> Len(val)]
               ELSE [cell |-> c, trunc |-> FALSE, orig |-> val, len |-> Len(val)] :
               c \in {clean_single_line(val)} })

Sanitize(v, s, maxlen) ==
    CASE v = "v3" -> sanitize_cell(s, maxlen)
      [] v = "v2_fixed" -> sanitize_cell_v2_fixed(s, maxlen)
      [] v = "extractall" -> sanitize_with_tracking_extractall(s, maxlen)
      [] OTHER -> sanitize_with_tracking(s, maxlen)

\* The fields the writer passes through the sanitizer: every field of the
\* row, but only the value column in the long-form extractor.
SanitizedFields(v) == IF v = "extractall" THEN {"text"} ELSE Fields

\* A field written as it is.
Verbatim(s) == [cell |-> s, trunc |-> FALSE, orig |-> s, len |-> Len(s)]

TruncIdle ==
    /\ variant = "" /\ max_len = 0 /\ rows = <<>> /\ written = 0
    /\ csv = <<>> /\ sidecar = <<>>

TruncInit ==
    /\ variant \in Variants /\ max_len \in 0..MaxBudget
    /\ rows = <<>> /\ written = 0 /\ csv = <<>> /\ sidecar = <<>>

\* main's loop over the archives: one more row is collected.
AppendRow ==
    /\ written = 0
    /\ \E id \in RowIds, val \in Values :
          /\ \A i \in DOMAIN rows : rows[i].row_id # id
          /\ rows' = Append(rows, [row_id |-> id, text |-> val])
    /\ UNCHANGED <<variant, max_len, written, csv, sidecar>>
    /\ UNCHANGED outsideTrunc

\* One iteration of "for r in rows" in the writer: the sanitized row goes to
\* the CSV and, if a field was truncated, one record goes to the sidecar.
WriteRow ==
    /\ written < Len(rows)
    /\ \E r \in {rows[written + 1]} :
       \E san \in {[k \in Fields |-> IF k \in SanitizedFields(variant)
                                       THEN Sanitize(variant, r[k], max_len)
                                       ELSE Verbatim(r[k])]} :
       \E tfields \in {{k \in Fields : san[k].trunc}} :
          /\ csv' = Append(csv, [k \in Fields |-> san[k].cell])
          /\ sidecar' = IF tfields # {}
                        THEN Append(sidecar,
                                [row_id |-> r.row_id,
                                 truncated_fields |-> tfields,
                                 full |-> [k \in tfields |-> san[k].orig],
                                 lengths |-> [k \in tfields |-> san[k].len]])
                        ELSE sidecar
    /\ written' = written + 1
    /\ UNCHANGED <<variant, max_len, rows>>
    /\ UNCHANGED outsideTrunc


(***************************************************************************)
(*                       CLAIMS ABOUT TRUNCATION                           *)
(***************************************************************************)

\* The cell of field k in the i-th written row ends with the marker.
WasTruncated(i, k) ==
    csv[i][k] # <<>> /\ csv[i][k][Len(csv[i][k])] \in {Ellipsis, Mojibake[3]}

\* C10  Lossless truncation: for every output row in which some field was
\* truncated, the sidecar contains a record with that row's row_id whose
\* stored full value for each truncated field equals exactly the field's
\* value before truncation, so the original value is recoverable from the
\* sidecar by row identifier.
C10_LosslessTruncation ==
    \A i \in 1..written :
        (\E k \in Fields : WasTruncated(i, k)) =>
            \E j \in DOMAIN sidecar :
                /\ sidecar[j].row_id = rows[i].row_id
                /\ \A k \in Fields :
                      WasTruncated(i, k) =>
                          /\ k \in DOMAIN sidecar[j].full
                          /\ sidecar[j].full[k] = rows[i][k]


\* C11  Cell truncation: for every positive cell budget B and every field
\* value, the emitted cell has at most B characters; when the
\* whitespace-collapsed value is longer than B the cell is exactly its first
\* B-1 characters followed by one single ellipsis character, and otherwise
\* the cell equals the whitespace-collapsed value; in every variant.
C11_CellTruncation ==
    max_len > 0 =>
        \A i \in 1..written : \A k \in SanitizedFields(variant) :
            \A c \in {clean_single_line(rows[i][k])} :
                /\ Len(csv[i][k]) <= max_len
                /\ Len(c) > max_len =>
                      csv[i][k] = SubSeq(c, 1, max_len - 1) \o <<Ellipsis>>
                /\ Len(c) <= max_len => csv[i][k] = c

(***************************************************************************)
(*        FUNCTIONS OF THE EXTRACTOR, CALLED ON THEIR OWN                  *)
(***************************************************************************)

NotCalled == [done |-> FALSE, value |-> <<>>]
Returned(v) == [done |-> TRUE, value |-> v]

CallIdle == fn_in = <<>> /\ fn_out = NotCalled

\* ---- aggregate_field_values

\* per_file_fields is a list of dicts, one per document parsed; a dict maps
\* some of the keys to a text.
MaxDocs == 2
AggKeys == {"authors", "Name"}
AggValues == { <<>>, <<" ">>, <<"A">>, <<" ", "A">>, <<"A", " ">>, <<"B">> }
FieldMaps == UNION { [ks -> AggValues] : ks \in SUBSET AggKeys }

\* The bug "a value already collected is collected again".
AggAdd_NoDedup(vals, s) == Append(vals, s)

\* Lines 400-403: "if s not in agg[k]: agg[k].append(s)"
AggAdd(vals, s) == IF s \in Range(vals) THEN vals ELSE Append(vals, s)

\* Lines 394-403 for one key k: agg[k] after the loop over the documents
\* (the empty list stands for "k not in agg").
RECURSIVE AggCollect(_, _)
AggCollect(per_file_fields, k) ==
    IF per_file_fields = <<>> THEN <<>>
    ELSE TheValue({
            IF k \notin DOMAIN d \/ Strip(d[k]) = <<>> THEN prev
            ELSE AggAdd(prev, Strip(d[k])) :
            prev \in {AggCollect(SubSeq(per_file_fields, 1, Len(per_file_fields) - 1), k)},
            d \in {per_file_fields[Len(per_file_fields)]} })

\* " | ".join(vals)
RECURSIVE JoinBar(_)
JoinBar(vals) ==
    IF vals = <<>> THEN <<>>
    ELSE IF Len(vals) = 1 THEN vals[1]
    ELSE vals[1] \o <<" ", "|", " ">> \o JoinBar(Tail(vals))

aggregate_field_values(per_file_fields) ==
    [k \in {x \in AggKeys : AggCollect(per_file_fields, x) # <<>>} |->
        JoinBar(AggCollect(per_file_fields, k))]

AggInit == fn_in = <<>> /\ fn_out = NotCalled

\* One more document has been parsed and normalized.
AddFieldMap ==
    /\ ~fn_out.done /\ Len(fn_in) < MaxDocs
    /\ \E d \in FieldMaps : fn_in' = Append(fn_in, d)
    /\ UNCHANGED fn_out
    /\ UNCHANGED outsideCall

\* row.update(aggregate_field_values(per_file_fields))
Aggregate ==
    /\ ~fn_out.done
    /\ fn_out' = Returned(aggregate_field_values(fn_in))
    /\ UNCHANGED fn_in
    /\ UNCHANGED outsideCall

\* The distinct trimmed non-empty values of key k in the documents.
TrimmedValues(docs, k) ==
    {Strip(docs[i][k]) : i \in {j \in DOMAIN docs : k \in DOMAIN docs[j]}} \ {<<>>}

\* The index of the first document whose value of key k trims to v.
FirstSeen(docs, k, v) ==
    CHOOSE i \in DOMAIN docs :
        /\ k \in DOMAIN docs[i] /\ Strip(docs[i][k]) = v
        /\ \A j \in 1..(i - 1) : ~(k \in DOMAIN docs[j] /\ Strip(docs[j][k]) = v)

\* C12  Multi-document aggregation: each output field is the " | "-join of
\* the distinct trimmed non-empty values of that field, in the order of their
\* first occurrence across the documents; no value appears twice in a field.
C12_Aggregation ==
    fn_out.done =>
        \A k \in AggKeys :
            \A V \in {TrimmedValues(fn_in, k)} :
                /\ k \in DOMAIN fn_out.value <=> V # {}
                /\ V # {} =>
                     \E e \in [1..Cardinality(V) -> V] :
                        /\ \A a, b \in DOMAIN e : a < b => e[a] # e[b]
                        /\ \A a, b \in DOMAIN e :
                              a < b => FirstSeen(fn_in, k, e[a]) < FirstSeen(fn_in, k, e[b])
                        /\ fn_out.value[k] = JoinBar(e)

\* Two documents gave the same author after trimming, and the field holds
\* the value once.
C12_Witness ==
    /\ fn_out.done
    /\ Len(fn_in) = 2
    /\ "authors" \in DOMAIN fn_in[1] /\ "authors" \in DOMAIN fn_in[2]
    /\ fn_in[1]["authors"] = <<" ", "A">> /\ fn_in[2]["authors"] = <<"A", " ">>
    /\ fn_out.value["authors"] = <<"A">>

\* ---- normalize_fields_from_obj (v3) and normalize_fields (v2): the loop
\* over the known keys

MaxKeys == 2

\* Two of the keys of VEHICLE_KEYS + MAP_KEYS + OTHER_KEYS.
KnownKeys == { <<"N", "a", "m", "e">>, <<"B", "r", "a", "n", "d">> }

\* The keys a document can hold: the known ones and one that is not known.
DocKeys == KnownKeys \cup { <<"z">> }

JStr(cs) == JVal("str", cs, <<>>, <<>>)
JNum(ds) == JVal("num", ds, <<>>, <<>>)
JNull == JVal("null", <<>>, <<>>, <<>>)
JTrue == JVal("true", <<>>, <<>>, <<>>)
JFalse == JVal("false", <<>>, <<>>, <<>>)

\* The values a key can have: scalars, a list and a mapping.
DocValues ==
    { JStr(<<"x">>), JStr(<<>>), JNum(<<"1", "2">>), JNull, JTrue, JFalse,
      JVal("arr", <<>>, <<>>, <<JNum(<<"1">>), JNull>>),
      JVal("obj", <<>>, << <<"k">> >>, <<JTrue>>) }

IsScalar(v) == v.t \notin {"arr", "obj"}

\* s1 + sep + s2 + sep + ... for a list of texts
RECURSIVE JoinWith(_, _)
JoinWith(texts, sep) ==
    IF texts = <<>> THEN <<>>
    ELSE IF Len(texts) = 1 THEN texts[1]
    ELSE texts[1] \o sep \o JoinWith(Tail(texts), sep)

\* json.dumps(v, ensure_ascii=False)
RECURSIVE JsonDumps(_)
JsonDumps(v) ==
    CASE v.t = "str" -> <<Q>> \o v.s \o <<Q>>
      [] v.t = "num" -> v.s
      [] v.t = "null" -> <<"n", "u", "l", "l">>
      [] v.t = "true" -> <<"t", "r", "u", "e">>
      [] v.t = "false" -> <<"f", "a", "l", "s", "e">>
      [] v.t = "arr" ->
            <<"[">> \o JoinWith([i \in DOMAIN v.items |-> JsonDumps(v.items[i])], <<",", " ">>)
                    \o <<"]">>
      [] OTHER ->
            <<"{">> \o JoinWith([i \in DOMAIN v.keys |->
                                    <<Q>> \o v.keys[i] \o <<Q, ":", " ">> \o JsonDumps(v.items[i])],
                                <<",", " ">>)
                    \o <<"}">>

\* str(v) of a scalar
PyStr(v) ==
    CASE v.t = "str" -> v.s
      [] v.t = "num" -> v.s
      [] v.t = "true" -> <<"T", "r", "u", "e">>
      [] v.t = "false" -> <<"F", "a", "l", "s", "e">>
      [] OTHER -> <<"N", "o", "n", "e">>

\* obj.get(k) for a key of the object
ObjGet(obj, k) == obj.items[CHOOSE n \in DOMAIN obj.keys : obj.keys[n] = k]

\* The bug "the v3 normalizer has no test for None".
NormalizeValue_NoNoneTest(v, val) ==
    IF ~IsScalar(val) THEN JsonDumps(val) ELSE PyStr(val)

\* Lines 354-360 of the v3 extractor ('"" if v is None else str(v)') and
\* lines 253-259 of v2 ('str(v)'): the cell text of one value.
NormalizeValue(v, val) ==
    IF ~IsScalar(val) THEN JsonDumps(val)
    ELSE IF v = "v3" /\ val.t = "null" THEN <<>>
    ELSE PyStr(val)

\* Lines 351-360: out after the loop over the known keys.
NormalizeKnownKeys(v, obj) ==
    [k \in {x \in KnownKeys : x \in Range(obj.keys)} |-> NormalizeValue(v, ObjGet(obj, k))]

NormInit ==
    /\ \E v \in {"v3", "v2"} : fn_in = [variant |-> v, obj |-> EmptyObj]
    /\ fn_out = NotCalled

\* The document holds one more key (or a new value for a key it has).
SetDocKey ==
    /\ ~fn_out.done /\ Len(fn_in.obj.keys) < MaxKeys
    /\ \E k \in DocKeys, val \in DocValues :
          \E d \in {DictSet(fn_in.obj.keys, fn_in.obj.items, k, val)} :
             fn_in' = [fn_in EXCEPT !.obj = JVal("obj", <<>>, d.keys, d.items)]
    /\ UNCHANGED fn_out
    /\ UNCHANGED outsideCall

\* per_file_fields.append(normalize_fields_from_obj(obj))
Normalize ==
    /\ ~fn_out.done
    /\ fn_out' = Returned(NormalizeKnownKeys(fn_in.variant, fn_in.obj))
    /\ UNCHANGED fn_in
    /\ UNCHANGED outsideCall

\* The literal text of a scalar as the document spells it.
LiteralText(val) ==
    CASE val.t = "null" -> <<"n", "u", "l", "l">>
      [] val.t = "true" -> <<"t", "r", "u", "e">>
      [] val.t = "false" -> <<"f", "a", "l", "s", "e">>
      [] OTHER -> val.s

MaxDigits == 14

DigitVal(c) ==
    CASE c = "0" -> 0 [] c = "1" -> 1 [] c = "2" -> 2 [] c = "3" -> 3 [] c = "4" -> 4
      [] c = "5" -> 5 [] c = "6" -> 6 [] c = "7" -> 7 [] c = "8" -> 8 [] OTHER -> 9

\* a < b for two digit sequences without leading zeros
DigitsLess(a, b) ==
    \/ Len(a) < Len(b)
    \/ /\ Len(a) = Len(b)
       /\ \E i \in DOMAIN a :
             /\ DigitVal(a[i]) < DigitVal(b[i])
             /\ \A j \in 1..(i - 1) : a[j] = b[j]

\* 1e12, the threshold of the unit detection (line 134)
Threshold == <<"1", "0", "0", "0", "0", "0", "0", "0", "0", "0", "0", "0", "0">>

\* 32503680000, the first second of the year 3000 (line 136)
Year3000 == <<"3", "2", "5", "0", "3", "6", "8", "0", "0", "0", "0">>

\* The whole seconds of num / 1000.0 for num > 1e12
DivThousand(d) == SubSeq(d, 1, Len(d) - 3)

\* value * 1000, the millisecond encoding of a number of seconds
Millis(n) == IF n.digits = <<"0">> THEN n ELSE [n EXCEPT !.digits = @ \o <<"0", "0", "0">>]

EmptyText == [empty |-> TRUE, second |-> <<>>]

\* to_iso(num): the text 'YYYY-MM-DD HH:MM:SS UTC' of a time stamp, here
\* the whole second it names; different seconds have different texts.
to_iso(sec) == [empty |-> FALSE, second |-> sec]

\* The bug "a value above 1e12 is not divided by 1000".
parse_human_time_NoUnitDetection(value) ==
    IF value.neg \/ value.digits = <<"0">> THEN EmptyText
    ELSE IF DigitsLess(value.digits, Year3000) THEN to_iso(value.digits)
    ELSE EmptyText

\* Lines 126-137 and 155 for an int: num = float(value); above 1e12 it is
\* divided by 1000; inside (0, 32503680000) it is formatted, outside the
\* result is "".
parse_human_time(value) ==
    IF value.neg \/ value.digits = <<"0">> THEN EmptyText
    ELSE TheValue({ IF DigitsLess(num, Year3000) THEN to_iso(num) ELSE EmptyText :
                    num \in {IF DigitsLess(Threshold, value.digits)
                             THEN DivThousand(value.digits)
                             ELSE value.digits} })

\* The numbers the digits are appended to.
TimeSeeds ==
    { <<"0">>, <<"1">>, <<"9">>, <<"1", "7">>,
      <<"3", "2", "5", "0", "3", "6", "7", "9">>,
      <<"3", "2", "5", "0", "3", "6", "8", "0">>,
      <<"9", "9", "9", "9", "9", "9", "9", "9", "9">>,
      <<"1", "0", "0", "0", "0", "0", "0", "0", "0", "0">>,
      <<"1", "0", "0", "0", "0", "0", "0", "0", "0", "1">>,
      <<"3", "2", "5", "0", "3", "6", "7", "9", "9", "9", "9">>,
      Year3000 }

TimeInit ==
    /\ \E d \in TimeSeeds, neg \in BOOLEAN :
          fn_in = [neg |-> neg /\ d # <<"0">>, digits |-> d]
    /\ fn_out = NotCalled

\* The value of "last_update" has one more digit.
AppendDigit ==
    /\ ~fn_out.done /\ Len(fn_in.digits) < MaxDigits /\ fn_in.digits # <<"0">>
    /\ \E c \in {"0", "9"} : fn_in' = [fn_in EXCEPT !.digits = Append(@, c)]
    /\ UNCHANGED fn_out
    /\ UNCHANGED outsideCall

\* out["last_update_human"] = parse_human_time(obj.get("last_update"))
Humanize ==
    /\ ~fn_out.done
    /\ fn_out' = Returned(parse_human_time(fn_in))
    /\ UNCHANGED fn_in
    /\ UNCHANGED outsideCall

\* 0 < s < 32503680000
InSecondsRange(n) == ~n.neg /\ n.digits # <<"0">> /\ DigitsLess(n.digits, Year3000)

\* The number of seconds the unit detection arrives at.
Detected(n) ==
    IF DigitsLess(Threshold, n.digits) /\ ~n.neg
    THEN [n EXCEPT !.digits = DivThousand(@)] ELSE n

\* Numeric values outside (0, 32503680000) after unit detection yield the
\* empty string.
OutsideRangeIsEmpty ==
    (fn_out.done /\ ~InSecondsRange(Detected(fn_in))) => fn_out.value = EmptyText

\* C14  Timestamp unit detection: for every integer epoch-seconds value s
\* with 0 < s < 32503680000, humanizing the millisecond encoding s*1000
\* yields the same text as humanizing s; numeric values outside
\* (0, 32503680000) after unit detection yield the empty string.
C14_MillisSameAsSeconds ==
    /\ (fn_out.done /\ InSecondsRange(fn_in)) =>
           /\ ~fn_out.value.empty
           /\ parse_human_time(Millis(fn_in)) = fn_out.value
    /\ OutsideRangeIsEmpty

\* 10^9, the largest s whose millisecond encoding is not above 1e12
Billion == <<"1", "0", "0", "0", "0", "0", "0", "0", "0", "0">>

\* C14 (as the code has it)  For every integer s with
\* 10^9 < s < 32503680000, humanizing s*1000 yields the same text as
\* humanizing s; for 0 < s <= 10^9 the encoding s*1000 is not above 10^12
\* and is read as a number of seconds: the second s*1000 if that is below
\* 32503680000, the empty string otherwise.  Numeric values outside
\* (0, 32503680000) after unit detection yield the empty string.
C14_MillisAboveThreshold ==
    /\ (fn_out.done /\ InSecondsRange(fn_in)) =>
           /\ fn_out.value = to_iso(fn_in.digits)
           /\ DigitsLess(Billion, fn_in.digits) =>
                 parse_human_time(Millis(fn_in)) = fn_out.value
           /\ ~DigitsLess(Billion, fn_in.digits) =>
                 parse_human_time(Millis(fn_in)) =
                    IF DigitsLess(Millis(fn_in).digits, Year3000)
                    THEN to_iso(Millis(fn_in).digits) ELSE EmptyText
    /\ OutsideRangeIsEmpty

\* 1700000000 has been humanized, and 1700000000000 gives the same text.
C14_Witness ==
    /\ fn_out.done
    /\ fn_in = [neg |-> FALSE, digits |-> <<"1", "7", "0", "0", "0", "0", "0", "0", "0", "0">>]
    /\ ~fn_out.value.empty
    /\ parse_human_time(Millis(fn_in)) = fn_out.value

\* ---- the renamer: guess_version, vehicle_name, build_vehicle_filename

DecDigits == {"0", "1", "2", "3", "4", "5", "6", "7", "8", "9"}

\* Where the (?:\.\d+)* part of the version pattern ends when it starts at
\* index e (the index after its last character).
RECURSIVE DotGroupsEnd(_, _)
DotGroupsEnd(s, e) ==
    IF At(s, e) = "." /\ At(s, e + 1) \in DecDigits
    THEN DotGroupsEnd(s, FirstNotIn(s, e + 1, DecDigits))
    ELSE e

\* A match of \s(v\d+(?:\.\d+)*), IGNORECASE, starts at index i.
TokenStartsAt(s, i) ==
    /\ At(s, i) \in WS
    /\ At(s, i + 1) \in {"v", "V"}
    /\ At(s, i + 2) \in DecDigits

HasToken(s) == \E i \in DOMAIN s : TokenStartsAt(s, i)

\* group(1) of the first match of re.search
FilenameToken(s) ==
    TheValue({ SubSeq(s, i + 1, DotGroupsEnd(s, FirstNotIn(s, i + 2, DecDigits)) - 1) :
               i \in {CHOOSE i \in DOMAIN s :
                         /\ TokenStartsAt(s, i)
                         /\ \A k \in 1..(i - 1) : ~TokenStartsAt(s, k)} })

\* j.get(k): the value of the key, None when the key is absent
Absent == NoneVal

StartsWithV(s) == At(s, 1) \in {"v", "V"}

\* Lines 93-102.
guess_version(basename, j) ==
    IF HasToken(basename) THEN FilenameToken(basename)
    ELSE TheValue({ IF ver.t = "str" /\ Strip(ver.s) # <<>>
                    THEN IF ~StartsWithV(ver.s)
                         THEN <<" ">> \o Strip(<<"v">> \o Strip(ver.s))
                         ELSE <<" ">> \o Strip(ver.s)
                    ELSE <<>> :
                    ver \in {j["version_string"]} })

BadChars == {"<", ">", ":", Q, "/", "\\", "|", "?", "*"}

\* Lines 104-108: the characters Windows forbids become "_", runs of
\* whitespace one space, ends stripped.
sanitize_component(s) ==
    Strip(CollapseBlanks([i \in DOMAIN s |->
        IF s[i] \in BadChars THEN "_" ELSE IF s[i] \in WS THEN " " ELSE s[i]]))

\* a or b
PyOr(a, b) == IF Falsy(a) THEN b ELSE a

\* Lines 122-126: (brand, body, name), each str(...).strip()
vehicle_name(j) ==
    [brand |-> Strip(PyStr(PyOr(j["Brand"], PyOr(j["brand"], JStr(<<>>))))),
     body |-> Strip(PyStr(PyOr(j["Body Style"],
                               PyOr(j["body_style"], PyOr(j["BodyStyle"], JStr(<<>>)))))),
     name |-> Strip(PyStr(PyOr(j["Name"], PyOr(j["title"], JStr(<<>>)))))]

Unknown == <<"U", "n", "k", "n", "o", "w", "n">>
VehiclePrefix == <<"[", "v", "e", "h", "i", "c", "l", "e", "]", "[", "c", "a", "r", "]", "[">>
ZipExt == <<".", "z", "i", "p">>

\* What plan_new_name returns: (new, reason)
Planned(new) == [new |-> new, reason |-> "", none |-> FALSE]
NotPlanned(reason) == [new |-> <<>>, reason |-> reason, none |-> TRUE]

\* Lines 132-138: None without a name, else
\* "[vehicle][car][{brand}][{body}] {name}{ver}.zip"
build_vehicle_filename(brand, body, name, ver) ==
    IF name = <<>> THEN NotPlanned("insufficient metadata")
    ELSE Planned(VehiclePrefix
                 \o (IF brand # <<>> THEN sanitize_component(brand) ELSE Unknown)
                 \o <<"]", "[">>
                 \o (IF body # <<>> THEN sanitize_component(body) ELSE Unknown)
                 \o <<"]", " ">> \o sanitize_component(name) \o ver \o ZipExt)

\* Lines 164-168 and 173 of plan_new_name for kind == VEHICLE
plan_vehicle_name(basename, j) ==
    TheValue({ build_vehicle_filename(vn.brand, vn.body, vn.name, guess_version(basename, j)) :
               vn \in {vehicle_name(j)} })

\* The keys of info.json the renamer reads for a vehicle.
VehicleKeys ==
    {"Brand", "brand", "Body Style", "body_style", "BodyStyle", "Name", "title",
     "version_string"}

\* The values tried for a key.
KeyValues(k) ==
    CASE k = "version_string" ->
            {JStr(<<"1", ".", "2">>), JStr(<<"v", "1">>), JStr(<<" ", "v", "1">>), JStr(<<"V", "3">>), JStr(<<" ">>),
             JStr(<<>>), JNum(<<"2">>)}
      [] k = "Name" -> {JStr(<<"P">>), JStr(<<" ", "P", " ", " ", "q">>), JStr(<<"P", ":">>), JStr(<<>>), JNum(<<"7">>)}
      [] k = "Brand" -> {JStr(<<"B">>), JStr(<<" ">>), JStr(<<"B", "/", "b">>)}
      [] k = "Body Style" -> {JStr(<<"S">>), JStr(<<>>)}
      [] OTHER -> {JStr(<<"t">>)}

\* The stems of the archive names tried; the name is the stem and ".zip".
Stems ==
    { <<"P">>, <<"P", " ", "v", "2">>, <<"P", " ", "V", "2">>, <<"P", " ", "v", "2", ".", "1">>, <<"P", " ", "v", "2", ".">>, <<"P", " ", "v">>, <<"P", "v", "2">>, <<"v", "2">>,
      <<"P", " ", "v", "2", " ", "v", "3">>, <<"P", " ", " ", "v", "1", ".", "2", ".", "3">>, <<"P", " ", "v", "1", "0", " ", "x">> }

\* The number of keys the document holds at most
MaxFields == 3

NoFields == [k \in VehicleKeys |-> Absent]

FieldCount(j) == Cardinality({k \in VehicleKeys : j[k] # Absent})

NameInit ==
    /\ \E st \in Stems : fn_in = [basename |-> st \o ZipExt, j |-> NoFields]
    /\ fn_out = NotCalled

\* info.json holds one more key.
SetField ==
    /\ ~fn_out.done /\ FieldCount(fn_in.j) < MaxFields
    /\ \E k \in VehicleKeys : \E val \in KeyValues(k) :
          /\ fn_in.j[k] = Absent
          /\ fn_in' = [fn_in EXCEPT !.j[k] = val]
    /\ UNCHANGED fn_out
    /\ UNCHANGED outsideCall

\* plan_new_name for an archive found to be a vehicle
PlanVehicle ==
    /\ ~fn_out.done
    /\ fn_out' = Returned([ver |-> guess_version(fn_in.basename, fn_in.j),
                           plan |-> plan_vehicle_name(fn_in.basename, fn_in.j)])
    /\ UNCHANGED fn_in
    /\ UNCHANGED outsideCall

\* The text of a field the way the name uses it, "Unknown" when absent.
ComponentOrUnknown(s) == IF s = <<>> THEN Unknown ELSE sanitize_component(s)

\* C15  Vehicle filename synthesis: for a vehicle archive with non-empty
\* name whose current filename contains a version token, the planned name is
\* "[vehicle][car][{brand}][{body}] {name}" followed by a space, the token
\* and ".zip"; brand and body style are "Unknown" when absent.
C15_VehicleFilename ==
    (fn_out.done /\ HasToken(fn_in.basename)) =>
        \A vn \in {vehicle_name(fn_in.j)} :
            vn.name # <<>> =>
                fn_out.value.plan =
                    Planned(VehiclePrefix \o ComponentOrUnknown(vn.brand) \o <<"]", "[">>
                            \o ComponentOrUnknown(vn.body) \o <<"]", " ">>
                            \o sanitize_component(vn.name) \o <<" ">>
                            \o FilenameToken(fn_in.basename) \o ZipExt)

\* The version_string of the document, as the suffix should carry it: the
\* stripped text with one "v" in front unless it starts with "v" or "V".
OneLeadingV(s) == IF StartsWithV(Strip(s)) THEN Strip(s) ELSE <<"v">> \o Strip(s)

\* C16  Version suffix resolution: a version token in the current filename
\* is used whenever present, regardless of metadata; otherwise a non-blank
\* string version_string is used, carrying exactly one leading "v"; otherwise
\* the suffix is empty.  A non-empty suffix is separated from the name by
\* exactly one space.
C16_VersionSuffix ==
    fn_out.done =>
        \A ver \in {fn_in.j["version_string"]} :
            /\ HasToken(fn_in.basename) =>
                  fn_out.value.ver = <<" ">> \o FilenameToken(fn_in.basename)
            /\ (~HasToken(fn_in.basename) /\ ver.t = "str" /\ Strip(ver.s) # <<>>) =>
                  fn_out.value.ver = <<" ">> \o OneLeadingV(ver.s)
            /\ (~HasToken(fn_in.basename) /\ ~(ver.t = "str" /\ Strip(ver.s) # <<>>)) =>
                  fn_out.value.ver = <<>>

\* What holds of guess_version: the filename token comes first and is
\* returned without a space in front; a version_string is stripped and gets
\* a "v" in front unless its unstripped text starts with "v" or "V".
VersionSuffixAsCoded ==
    fn_out.done =>
        \A ver \in {fn_in.j["version_string"]} :
            /\ HasToken(fn_in.basename) =>
                  fn_out.value.ver = FilenameToken(fn_in.basename)
            /\ (~HasToken(fn_in.basename) /\ ver.t = "str" /\ Strip(ver.s) # <<>>) =>
                  fn_out.value.ver =
                     <<" ">> \o (IF StartsWithV(ver.s) THEN Strip(ver.s)
                                 ELSE <<"v">> \o Strip(ver.s))
            /\ (~HasToken(fn_in.basename) /\ ~(ver.t = "str" /\ Strip(ver.s) # <<>>)) =>
                  fn_out.value.ver = <<>>

\* ---- the renamer's run: next_nonconflicting and main

\* The directory holds, before the run, up to MaxArchives of: two archives
\* with names of their own, an archive that already has the planned name, and
\* archives with the planned name and the suffixes " (2)" and " (3)".
MaxArchives == 3

DigitChar(d) ==
    CASE d = 0 -> "0" [] d = 1 -> "1" [] d = 2 -> "2" [] d = 3 -> "3" [] d = 4 -> "4"
      [] d = 5 -> "5" [] d = 6 -> "6" [] d = 7 -> "7" [] d = 8 -> "8" [] OTHER -> "9"

\* str(n) inside the f-string
RECURSIVE Dec(_)
Dec(n) == IF n < 10 THEN <<DigitChar(n)>> ELSE Dec(n \div 10) \o <<DigitChar(n % 10)>>

\* os.path.splitext of a name: the extension starts at the last dot that
\* has a character other than a dot before it.
splitext(name) ==
    LET dots == {i \in DOMAIN name : name[i] = "." /\ \E k \in 1..(i - 1) : name[k] # "."}
    IN IF dots = {} THEN [base |-> name, ext |-> <<>>]
       ELSE TheValue({ [base |-> SubSeq(name, 1, i - 1), ext |-> SubSeq(name, i, Len(name))] :
                       i \in {CHOOSE i \in dots : \A k \in dots : k <= i} })

\* f"{base} ({n}){ext}"
Candidate(name, n) ==
    TheValue({ se.base \o <<" ", "(">> \o Dec(n) \o <<")">> \o se.ext : se \in {splitext(name)} })

\* The bug "the requested path is returned without probing".
next_nonconflicting_NoProbe(exists, path) == path

\* Lines 147-156; exists is the set of names os.path.exists is true of.
next_nonconflicting(exists, path) ==
    IF path \notin exists THEN path
    ELSE Candidate(path, CHOOSE n \in 2..(Cardinality(exists) + 2) :
                            /\ Candidate(path, n) \notin exists
                            /\ \A k \in 2..(n - 1) : Candidate(path, k) \in exists)

\* The name plan_new_name arrives at for the archives that get one.
TargetName == <<"T", ".", "z", "i", "p">>

OwnNames == { <<"a", ".", "z", "i", "p">>, <<"b", ".", "z", "i", "p">> }

TreeNames == OwnNames \cup {TargetName} \cup {Candidate(TargetName, n) : n \in {2, 3}}

\* What plan_new_name returns for an archive: a name, or None and a reason
\* (no metadata compartment, no name in the metadata, an exception on
\* opening the archive).
Plans ==
    { Planned(TargetName),
      NotPlanned("no info.json under vehicles/ or levels/"),
      NotPlanned("insufficient metadata"),
      NotPlanned("BadZipFile: File is not a zip file") }

NoName == <<>>

Record(status, path, to, reason) ==
    [status |-> status, path |-> path, to |-> to, reason |-> reason]

NoProbe == [called |-> FALSE, exists |-> {}, requested |-> NoName, target |-> NoName]

RenameIdle ==
    /\ rdir = <<>> /\ rdir0 = <<>> /\ rplan = <<>>
    /\ rapply = FALSE /\ rfiles = {} /\ records = <<>>
    /\ probe = NoProbe /\ rpc = "idle" /\ printed = <<>>

\* The state when main enters the loop over the listing of the directory;
\* every archive is its own content.
RenameInit ==
    /\ \E tree \in SUBSET TreeNames :
          /\ tree # {} /\ Cardinality(tree) <= MaxArchives
          /\ rdir = [n \in tree |-> n]
          /\ rfiles = tree
          /\ rplan \in [tree -> Plans]
    /\ rdir0 = rdir
    /\ rapply \in BOOLEAN
    /\ records = <<>>
    /\ probe = NoProbe
    /\ rpc = "walk"
    /\ printed = <<>>

\* os.rename(full, target) that succeeds: the entry full is gone, target
\* names the archive (replacing whatever it named before, as POSIX does).
Renamed(d, full, target) ==
    [n \in (DOMAIN d \ {full}) \cup {target} |-> IF n = target THEN d[full] ELSE d[n]]

\* The bug "a failed os.rename leaves no record".
VisitBody_NoErrorRecord(fn) ==
    \E plan \in {rplan[fn]} :
        IF plan.none
        THEN /\ records' = Append(records, Record("skip", fn, NoName, plan.reason))
             /\ UNCHANGED <<rdir, probe>>
        ELSE \E target \in {next_nonconflicting(DOMAIN rdir, plan.new)} :
                /\ probe' = [called |-> TRUE, exists |-> DOMAIN rdir,
                             requested |-> plan.new, target |-> target]
                /\ IF rapply
                   THEN \E ok \in BOOLEAN :
                           IF ok
                           THEN /\ rdir' = Renamed(rdir, fn, target)
                                /\ records' = Append(records, Record("renamed", fn, target, ""))
                           ELSE /\ UNCHANGED <<rdir, records>>
                   ELSE /\ records' = Append(records, Record("dry-run", fn, target, ""))
                        /\ UNCHANGED rdir

\* Lines 190-203 for one name of the listing: plan, probe, rename or not.
VisitBody(fn) ==
    \E plan \in {rplan[fn]} :
        IF plan.none
        THEN /\ records' = Append(records, Record("skip", fn, NoName, plan.reason))
             /\ UNCHANGED <<rdir, probe>>
        ELSE \E target \in {next_nonconflicting(DOMAIN rdir, plan.new)} :
                /\ probe' = [called |-> TRUE, exists |-> DOMAIN rdir,
                             requested |-> plan.new, target |-> target]
                /\ IF rapply
                   THEN \E ok \in BOOLEAN :
                           IF ok
                           THEN /\ rdir' = Renamed(rdir, fn, target)
                                /\ records' = Append(records, Record("renamed", fn, target, ""))
                           ELSE /\ records' = Append(records,
                                       Record("error", fn, target, "OSError"))
                                /\ UNCHANGED rdir
                   ELSE /\ records' = Append(records, Record("dry-run", fn, target, ""))
                        /\ UNCHANGED rdir

Visit ==
    /\ rpc = "walk"
    /\ \E fn \in rfiles :
          /\ rfiles' = rfiles \ {fn}
          /\ VisitBody(fn)
    /\ UNCHANGED <<rdir0, rplan, rapply, rpc, printed>>
    /\ UNCHANGED outsideRename

CountRecords(s) == Cardinality({i \in DOMAIN records : records[i].status = s})

\* Lines 213-218: the summary line.
PrintSummary ==
    /\ rpc = "walk"
    /\ rfiles = {}
    /\ rpc' = "done"
    /\ printed' = [total |-> Len(records), renamed |-> CountRecords("renamed"),
                   dry |-> CountRecords("dry-run"), skipped |-> CountRecords("skip"),
                   errors |-> CountRecords("error")]
    /\ UNCHANGED <<rdir, rdir0, rplan, rapply, rfiles, records, probe>>
    /\ UNCHANGED outsideRename

\* C17  Rename conflict resolution: the path next_nonconflicting returns
\* does not exist; it is the requested path when that is free, otherwise
\* "<base> (n)<ext>" for the smallest n >= 2 that is free; on the same
\* directory state it returns the same path (so every record of a dry run
\* carries the path a call on the untouched directory gives); no archive
\* of the directory is overwritten by a rename.
C17_ConflictResolution ==
    /\ probe.called =>
          /\ probe.target \notin probe.exists
          /\ probe.requested \notin probe.exists => probe.target = probe.requested
          /\ probe.requested \in probe.exists =>
                \E n \in 2..(Cardinality(probe.exists) + 2) :
                    /\ probe.target = Candidate(probe.requested, n)
                    /\ \A k \in 2..(n - 1) : Candidate(probe.requested, k) \in probe.exists
          /\ next_nonconflicting(probe.exists, probe.requested) = probe.target
    /\ ~rapply =>
          /\ rdir = rdir0
          /\ \A i \in DOMAIN records :
                records[i].status = "dry-run" =>
                    records[i].to = next_nonconflicting(DOMAIN rdir0, rplan[records[i].path].new)
    /\ \A n \in DOMAIN rdir0 : \E m \in DOMAIN rdir : rdir[m] = rdir0[n]

\* An archive was renamed to the planned name while "T.zip" and
\* "T (3).zip" existed: it is now "T (2).zip"; the next one probed past
\* all three and is "T (4).zip".
C17_Witness ==
    /\ rpc = "done" /\ rapply
    /\ DOMAIN rdir0 = {TargetName, Candidate(TargetName, 3)} \cup {<<"a", ".", "z", "i", "p">>}
    /\ probe.called /\ probe.target = Candidate(TargetName, 4)
    /\ rdir[Candidate(TargetName, 2)] = <<"a", ".", "z", "i", "p">>
    /\ CountRecords("renamed") = 2

\* ---- a run of the renamer or of the editor

\* The archives os.walk discovered.
RenamerTree == DOMAIN rdir0
EditorTree == {p \in DOMAIN fs0 : fs0[p].tag = "zip"}

RecordsOf(n) == {i \in DOMAIN records : records[i].path = n}
LogsOf(p) == {i \in DOMAIN logs : logs[i].path = p}

\* The renamer's records: one at most per archive, none for an archive not
\* yet visited, statuses of the fixed set; at the summary every archive has
\* been visited and has its record, and the total printed is the number of
\* archives and the sum of the four counts.
RenamerAccounting ==
    /\ \A i \in DOMAIN records :
          /\ records[i].status \in {"renamed", "dry-run", "skip", "error"}
          /\ records[i].path \in RenamerTree \ rfiles
    /\ \A n \in RenamerTree : Cardinality(RecordsOf(n)) = IF n \in rfiles THEN 0 ELSE 1
    /\ rpc = "done" =>
          /\ rfiles = {}
          /\ printed.total = Cardinality(RenamerTree)
          /\ printed.total = printed.renamed + printed.dry + printed.skipped + printed.errors

\* The same for the editor's logs; the archive being processed has no
\* record until its processing ends.
EditorAccounting ==
    /\ \A i \in DOMAIN logs :
          /\ logs[i].status \in {"edited", "dry-run", "skip", "error"}
          /\ logs[i].path \in EditorTree \ pending
    /\ \A p \in EditorTree :
          Cardinality(LogsOf(p)) =
             IF p \in pending \/ (p = cur /\ pc \notin {"scan", "done"}) THEN 0 ELSE 1
    /\ pc = "done" =>
          /\ pending = {}
          /\ summary.total = Cardinality(EditorTree)
          /\ summary.total = summary.edited + summary.dry + summary.skip + summary.err

\* The run has printed its summary line.
SummaryReached == rpc = "done" \/ pc = "done"

\* C19  Batch robustness (renamer and editor): whatever archives are
\* corrupt, lack metadata, or fail on rename, build, validate or swap, the run
\* processes every discovered archive, records exactly one record per
\* archive with a status of the fixed set, and reaches the summary, whose
\* total is the sum of the four counts.
C19_BatchRobustness ==
    /\ [](RenamerAccounting /\ EditorAccounting)
    /\ <>SummaryReached

\* A renamer run has ended with a renamed archive, a skipped one and one
\* whose os.rename failed.
C19_Witness ==
    /\ rpc = "done"
    /\ printed.renamed >= 1 /\ printed.skipped >= 1 /\ printed.errors >= 1
    /\ \E i \in DOMAIN records : records[i].reason = "BadZipFile: File is not a zip file"

\* ---- the renamer: find_kind_and_info

\* The entry names a renamed archive is made of (segments, as in EntryPool).
KindPool ==
    { <<"vehicles", "v", "info.json">>,
      <<"vehicles", "v", "body.dae">>,
      <<"vehicles", "w", "Info.JSON">>,
      <<"levels", "m", "info.json">>,
      <<"LEVELS", "n", "Info.JSON">>,
      <<"levels", "q", "main.level.json">>,
      <<"mod_info", "x", "info.json">>,
      <<"info.json">> }

\* Lines 71-79: the entry is an info.json with more than one segment whose
\* first segment is dir (case-insensitively).
IsInfoUnder(path, dir) ==
    /\ Lower(Basename(path)) = "info.json"
    /\ Len(path) > 1
    /\ Lower(path[1]) = dir

\* The last entry of the list that is an info.json under dir; <<>> if none
\* (the loop overwrites vehicles_info / levels_info).
LastInfoUnder(infolist, dir) ==
    LET c == {i \in DOMAIN infolist : IsInfoUnder(infolist[i], dir)}
    IN IF c = {} THEN <<>> ELSE infolist[CHOOSE i \in c : \A k \in c : k <= i]

KindAndInfo(kind, info) == [kind |-> kind, info |-> info]

\* Lines 65-82.
find_kind_and_info(infolist) ==
    IF LastInfoUnder(infolist, "vehicles") # <<>>
    THEN KindAndInfo("vehicle", LastInfoUnder(infolist, "vehicles"))
    ELSE IF LastInfoUnder(infolist, "levels") # <<>>
    THEN KindAndInfo("map", LastInfoUnder(infolist, "levels"))
    ELSE KindAndInfo("none", <<>>)

\* Lines 160-162 of plan_new_name: without a kind the archive is not
\* renamed; with one the name is built from the document at info.
plan_kind(infolist) ==
    TheValue({ [kind |-> ki.kind, info |-> ki.info,
                reason |-> IF ki.kind = "none"
                           THEN "no info.json under vehicles/ or levels/" ELSE ""] :
               ki \in {find_kind_and_info(infolist)} })

KindInit ==
    /\ fn_in = <<>>
    /\ fn_out = NotCalled

\* The archive has one more entry.
AddKindEntry ==
    /\ ~fn_out.done /\ Len(fn_in) < MaxEntries
    /\ \E e \in KindPool : fn_in' = Append(fn_in, e)
    /\ UNCHANGED fn_out
    /\ UNCHANGED outsideCall

FindKind ==
    /\ ~fn_out.done
    /\ fn_out' = Returned(plan_kind(fn_in))
    /\ UNCHANGED fn_in
    /\ UNCHANGED outsideCall

\* The archive has an entry dir/NAME/...
HasEntryUnder(infolist, dir) ==
    \E i \in DOMAIN infolist : Len(infolist[i]) >= 3 /\ Lower(infolist[i][1]) = dir

HasInfoUnder(infolist, dir) == \E i \in DOMAIN infolist : IsInfoUnder(infolist[i], dir)

\* C18  Renamer kind detection: an archive with any entry under
\* vehicles/NAME/... is a Vehicle; it is a Map only if it has no such entry
\* and has an entry under levels/NAME/...; the info.json used lives under the
\* chosen compartment; if neither compartment has an info.json the archive
\* is not renamed, with reason "no info.json under vehicles/ or levels/".
C18_KindDetection ==
    fn_out.done =>
        /\ (HasInfoUnder(fn_in, "vehicles") \/ HasInfoUnder(fn_in, "levels")) =>
              /\ HasEntryUnder(fn_in, "vehicles") => fn_out.value.kind = "vehicle"
              /\ fn_out.value.kind = "map" =>
                    ~HasEntryUnder(fn_in, "vehicles") /\ HasEntryUnder(fn_in, "levels")
              /\ fn_out.value.kind = "vehicle" => IsInfoUnder(fn_out.value.info, "vehicles")
              /\ fn_out.value.kind = "map" => IsInfoUnder(fn_out.value.info, "levels")
              /\ fn_out.value.kind # "none" => fn_out.value.info \in Range(fn_in)
        /\ ~(HasInfoUnder(fn_in, "vehicles") \/ HasInfoUnder(fn_in, "levels")) =>
              /\ fn_out.value.kind = "none"
              /\ fn_out.value.reason = "no info.json under vehicles/ or levels/"

\* What holds of find_kind_and_info: the kind goes by the info.json
\* entries alone, vehicles first.
KindByInfoJson ==
    fn_out.done =>
        /\ fn_out.value.kind = "vehicle" <=> HasInfoUnder(fn_in, "vehicles")
        /\ fn_out.value.kind = "map" <=>
              (~HasInfoUnder(fn_in, "vehicles") /\ HasInfoUnder(fn_in, "levels"))
        /\ fn_out.value.kind = "vehicle" => IsInfoUnder(fn_out.value.info, "vehicles")
        /\ fn_out.value.kind = "map" => IsInfoUnder(fn_out.value.info, "levels")
        /\ fn_out.value.kind = "none" <=>
              fn_out.value.reason = "no info.json under vehicles/ or levels/"

\* ---- an extractor's run over a tree with unreadable archives

\* The walk finds up to MaxZips archives; a readable archive holds up to
\* MaxPairs key/value pairs in its info.json documents.
MaxZips == 3
MaxPairs == 1

Extractors == {"v3", "updatebeamng", "extractall"}

\* What ZipFile(zip_path) does: opens the archive, raises BadZipFile, or
\* raises another exception.
ZipStates == {"ok", "bad", "unreadable"}

Archive(state, pairs) == [state |-> state, pairs |-> pairs]

\* The text of row["zip_error"] after the except clauses.
ZipError(state) ==
    CASE state = "bad" -> "BadZipFile"
      [] state = "unreadable" -> "PermissionError: [Errno 13] Permission denied"
      [] OTHER -> ""

\* A record of the output: the archive it is about (its row_id and its
\* file-info fields, which every record written carries), the error tag, and
\* in the long form the number of the key/value pair (0 in the wide form).
OutRow(i, err, pair) == [archive |-> i, info |-> TRUE, zip_error |-> err, pair |-> pair]

ExtractIdle ==
    /\ xvariant = "" /\ xzips = <<>> /\ xpending = {} /\ xrows = <<>> /\ xpc = "idle"

ExtractInit ==
    /\ xvariant \in Extractors
    /\ \E n \in 1..MaxZips :
          /\ xzips \in [1..n -> {Archive(st, k) : st \in ZipStates, k \in 0..MaxPairs}]
          /\ xpending = 1..n
    /\ \A i \in DOMAIN xzips : xzips[i].state # "ok" => xzips[i].pairs = 0
    /\ xrows = <<>>
    /\ xpc = "loop"

\* The rows the long-form extractor writes for a readable archive: one
\* per key/value pair.
LongRows(i, pairs) == [k \in 1..pairs |-> OutRow(i, "", k)]

\* One archive: process_zip of updatebeamng.py (lines 505-532) and the loop
\* body of the v3 extractor (lines 482-541) make one row, with zip_error after
\* an exception; the loop body of extractallfromzips.py (lines 196-262)
\* writes the rows of the pairs, and goes on to the next archive after an
\* exception.
ExtractBody(i) ==
    IF xvariant = "extractall"
    THEN IF xzips[i].state = "ok"
         THEN xrows' = xrows \o LongRows(i, xzips[i].pairs)
         ELSE UNCHANGED xrows
    ELSE xrows' = Append(xrows, OutRow(i, ZipError(xzips[i].state), 0))

\* The sequential extractors take the archives in the order of the walk;
\* updatebeamng.py takes the rows as its worker threads complete them.
ExtractOne ==
    /\ xpc = "loop"
    /\ \E i \in xpending :
          /\ xvariant # "updatebeamng" => \A k \in xpending : i <= k
          /\ xpending' = xpending \ {i}
          /\ ExtractBody(i)
    /\ UNCHANGED <<xvariant, xzips, xpc>>
    /\ UNCHANGED outsideExtract

\* The loop is over: the output is complete.
ExtractDone ==
    /\ xpc = "loop"
    /\ xpending = {}
    /\ xpc' = "done"
    /\ UNCHANGED <<xvariant, xzips, xpending, xrows>>
    /\ UNCHANGED outsideExtract

RowsOf(i) == {k \in DOMAIN xrows : xrows[k].archive = i}

\* C20  Container failure in extractors: every discovered archive that is
\* corrupt or unreadable still produces an output record carrying an error
\* tag (zip_error) alongside its file-info fields, and the batch continues
\* with the remaining archives; no discovered archive is absent from the
\* output, in every extractor variant including the long-form one.
C20_ContainerFailureRecorded ==
    xpc = "done" =>
        \A i \in DOMAIN xzips :
            xzips[i].state # "ok" =>
                \E k \in RowsOf(i) : xrows[k].zip_error # "" /\ xrows[k].info

\* What holds of all three: the run gets to the end of the tree whatever
\* fails, and the wide-form extractors write exactly one row per archive,
\* with zip_error set exactly for the archives that could not be read.
WideFormRecordsFailures ==
    xpc = "done" =>
        /\ xpending = {}
        /\ xvariant # "extractall" =>
              \A i \in DOMAIN xzips :
                  /\ Cardinality(RowsOf(i)) = 1
                  /\ \A k \in RowsOf(i) :
                        xrows[k].info /\ xrows[k].zip_error = ZipError(xzips[i].state)
        /\ xvariant = "extractall" =>
              \A i \in DOMAIN xzips : Cardinality(RowsOf(i)) = xzips[i].pairs

\* C27  Renamer stability on already-canonical names: if the planned name
\* of an archive equals its current name, an --apply run leaves the archive
\* at that name: its own path is no conflict and no " (2)" is added.
C27_CanonicalNameStays ==
    rapply =>
        \A i \in DOMAIN records :
            \A n \in {records[i].path} :
                rplan[n] = Planned(n) =>
                    /\ records[i].to = n
                    /\ n \in DOMAIN rdir /\ rdir[n] = rdir0[n]

\* The directory an --apply run without failures would have after the
\* first k records of this run.
RECURSIVE Shadow(_)
Shadow(k) ==
    IF k = 0 THEN rdir0
    ELSE TheValue({ IF rplan[records[k].path].none THEN d
                    ELSE Renamed(d, records[k].path,
                                 next_nonconflicting(DOMAIN d, rplan[records[k].path].new)) :
                    d \in {Shadow(k - 1)} })

\* C28  Renamer plan uniqueness: within one run, dry or applied, no two
\* archives are assigned the same target path; the targets a dry run reports
\* are the targets an --apply run on the same tree would use.
C28_TargetsUnique ==
    /\ \A i, k \in DOMAIN records :
          (/\ i # k
           /\ records[i].status \in {"renamed", "dry-run"}
           /\ records[k].status \in {"renamed", "dry-run"}) => records[i].to # records[k].to
    /\ ~rapply =>
          \A k \in DOMAIN records :
              records[k].status = "dry-run" =>
                  records[k].to = next_nonconflicting(DOMAIN Shadow(k - 1),
                                                      rplan[records[k].path].new)

\* What holds of an --apply run: the targets of the renamed archives differ.
AppliedTargetsUnique ==
    rapply =>
        \A i, k \in DOMAIN records :
            (i # k /\ records[i].status = "renamed" /\ records[k].status = "renamed")
                => records[i].to # records[k].to

\* C29  Editor frame over the tree: while an archive X is processed with
\* --apply, no file other than X, its sibling output "<X without
\* .zip>.edited.zip" and its ".bak" is created, overwritten or removed; no
\* other archive of the scanned tree has its bytes changed.
C29_EditorFrame ==
    [][\A p \in DOMAIN fs :
          (pc # "idle" /\ fs'[p] # fs[p]) =>
              /\ p \in {cur, EditedPath(cur), BakPath(cur)}
              /\ p # cur => fs0[p].tag # "zip"]_vars

\* What holds: a step writes only to X, to its sibling output and to its
\* ".bak".
EditorWritesOwnNames ==
    [][\A p \in DOMAIN fs :
          (pc # "idle" /\ fs'[p] # fs[p]) => p \in {cur, EditedPath(cur), BakPath(cur)}]_vars

\* ---- the v3 extractor: matches_ui_app_json on one entry

\* An entry path has up to MaxDepth segments.
MaxDepth == 6

Segments == {"ui", "modules", "apps", "A", "App.json"}

UiInit ==
    /\ fn_in = <<>>
    /\ fn_out = NotCalled

\* The entry path has one more segment.
AddSegment ==
    /\ ~fn_out.done /\ Len(fn_in) < MaxDepth
    /\ \E seg \in Segments : fn_in' = Append(fn_in, seg)
    /\ UNCHANGED fn_out
    /\ UNCHANGED outsideCall

\* collect_json_candidates on an archive whose only entry is the path:
\* what matches_ui_app_json says of it, and whether it is an app.json candidate.
Classify ==
    /\ ~fn_out.done /\ fn_in # <<>>
    /\ fn_out' = Returned([ui |-> matches_ui_app_json(fn_in),
                           candidate |-> collect_json_candidates(<<fn_in>>, {}).app_paths
                                            = <<fn_in>>,
                           name |-> ui_name_from_app_json(fn_in)])
    /\ UNCHANGED fn_in
    /\ UNCHANGED outsideCall

UnderUiApps(path) ==
    Len(path) >= 4 /\ Lower(path[1]) = "ui" /\ Lower(path[2]) = "modules"
        /\ Lower(path[3]) = "apps"

\* C26  UI-descriptor recognition: an entry is a UI descriptor if and only
\* if its base name is app.json (case-insensitive) and its path is
\* ui/modules/apps/<name>/app.json, exactly four directories deep; app.json
\* files nested deeper or shallower are not candidates.
C26_ExactlyFourDeep ==
    fn_out.done =>
        /\ fn_out.value.ui <=>
              (Len(fn_in) = 5 /\ UnderUiApps(fn_in) /\ Lower(Basename(fn_in)) = "app.json")
        /\ fn_out.value.candidate <=> fn_out.value.ui

\* C26 (as the code has it)  An entry is a UI descriptor if and only if its
\* base name is app.json (case-insensitive) and it lies at least four
\* directories deep under the prefix: ui/modules/apps/<name>/.../app.json, the
\* fourth segment being the ui name; an app.json directly under
\* ui/modules/apps/ or outside the prefix is no candidate.
C26_AtLeastFourDeep ==
    fn_out.done =>
        /\ fn_out.value.ui <=>
              (Len(fn_in) >= 5 /\ UnderUiApps(fn_in) /\ Lower(Basename(fn_in)) = "app.json")
        /\ fn_out.value.candidate <=> fn_out.value.ui
        /\ fn_out.value.ui => fn_out.value.name = fn_in[4]

\* ui/modules/apps/A/A/App.json has been classified: a UI descriptor.
C26_Witness ==
    /\ fn_out.done
    /\ fn_in = <<"ui", "modules", "apps", "A", "A", "App.json">>
    /\ fn_out.value.ui /\ fn_out.value.candidate

\* ---- determine_headers

\* The rows handed to determine_headers are up to MaxRows.
MaxRows == 2

FILE_INFO_COLS ==
    <<"row_id", "directory", "file_name", "file_size_bytes", "date_created", "date_modified">>

DERIVED_COLS ==
    <<"top_level_dir", "map_name", "vehicle_name", "ui_name", "info_json_count",
      "info_json_paths", "app_json_count", "app_json_paths", "json_rule_used",
      "json_selected_count", "json_selected_paths">>

NORMALIZED_COLS == <<"authors", "last_update_human", "resource_date_human">>

VEHICLE_KEYS ==
    <<"Author", "Body Style", "Brand", "Country", "Derby Class", "Description",
      "Name", "Region", "Type">>

MAP_KEYS ==
    <<"features", "suitablefor", "authors", "roads", "title", "description",
      "country", "biome", "size", "localUnits", "previews", "length">>

OTHER_KEYS ==
    <<"version_string", "last_update", "resource_date", "tag_line", "filename",
      "user_id", "username", "tagid", "message", "category_title", "prefix_title", "via">>

PREFERRED_ORDER ==
    FILE_INFO_COLS \o DERIVED_COLS \o NORMALIZED_COLS \o VEHICLE_KEYS \o MAP_KEYS \o OTHER_KEYS

\* The keys the rows tried are made of; the last two are in none of the
\* lists above, "Years" sorting before "zip_error".
RowKeys == {"row_id", "authors", "title", "Years", "zip_error"}

\* sorted(...) of a set of keys outside the preferred order
SortedKeys(S) ==
    (IF "Years" \in S THEN <<"Years">> ELSE <<>>)
        \o (IF "zip_error" \in S THEN <<"zip_error">> ELSE <<>>)

\* Lines 236-242 of the v3 extractor, lines 379-387 of updatebeamng.py.
determine_headers(rs) ==
    TheValue({ TheValue({ ordered \o SortedKeys(keys \ Range(ordered)) :
                          ordered \in {SelectSeq(PREFERRED_ORDER, LAMBDA k : k \in keys)} }) :
               keys \in {UNION {rs[i] : i \in DOMAIN rs}} })

HeadersInit ==
    /\ fn_in = <<>>
    /\ fn_out = NotCalled

\* rows has one more row; a row is the set of its keys.
AppendKeys ==
    /\ ~fn_out.done /\ Len(fn_in) < MaxRows
    /\ \E keys \in SUBSET RowKeys : fn_in' = Append(fn_in, keys)
    /\ UNCHANGED fn_out
    /\ UNCHANGED outsideCall

\* headers = determine_headers(rows)
Headers ==
    /\ ~fn_out.done
    /\ fn_out' = Returned(determine_headers(fn_in))
    /\ UNCHANGED fn_in
    /\ UNCHANGED outsideCall

Occurrences(s, k) == Cardinality({i \in DOMAIN s : s[i] = k})

\* C30  Header uniqueness and coverage: the header list holds every key
\* that occurs in any row exactly once ("authors" included), and no other;
\* the columns of the preferred order come first, in that order, the
\* remaining keys after them in sorted order.
C30_HeadersOnce ==
    fn_out.done =>
        \A keys \in {UNION {fn_in[i] : i \in DOMAIN fn_in}} :
            /\ \A k \in keys : Occurrences(fn_out.value, k) = 1
            /\ Range(fn_out.value) = keys
            /\ \E n \in 0..Len(fn_out.value) :
                  /\ \A i \in 1..n : fn_out.value[i] \in Range(PREFERRED_ORDER)
                  /\ SubSeq(fn_out.value, n + 1, Len(fn_out.value))
                        = SortedKeys(keys \ Range(PREFERRED_ORDER))

\* What holds: every key of a row is in the header list, nothing else is;
\* a key is there twice exactly when it is "authors".
HeadersCoverKeys ==
    fn_out.done =>
        \A keys \in {UNION {fn_in[i] : i \in DOMAIN fn_in}} :
            /\ Range(fn_out.value) = keys
            /\ \A k \in keys : Occurrences(fn_out.value, k) = IF k = "authors" THEN 2 ELSE 1

\* The file holds a byte that is not valid UTF-8.
InvalidUtf8(raw) == HighByte \in Range(raw)

\* C25  Parser encoding fallback: when the bytes fail to decode as UTF-8
\* the parser retries with Latin-1, so bytes that are invalid UTF-8 but form
\* a valid document under Latin-1 yield that document's mapping with its
\* Latin-1 characters intact (no replacement characters); within each
\* encoding the strict parse is attempted before the repaired parse.
C25_Latin1Fallback ==
    parsed.done =>
        \A raw \in {Raw(doc)} :
            \A a \in {Attempts(raw)} :
                /\ (InvalidUtf8(raw) /\ a[3].ok /\ a[3].v.t = "obj") => parsed.res = a[3].v
                /\ (~InvalidUtf8(raw) /\ a[1].ok /\ a[1].v.t = "obj") => parsed.res = a[1].v

\* What holds: the four attempts are made in the order strict UTF-8,
\* repaired UTF-8, strict Latin-1, repaired Latin-1, and the first that
\* parses decides, whatever the bytes are.
FirstAttemptDecides ==
    parsed.done =>
        \A raw \in {Raw(doc)} :
            \A a \in {Attempts(raw)} :
                /\ a[1].ok => parsed.res = IF a[1].v.t = "obj" THEN a[1].v ELSE NoneVal
                /\ (~a[1].ok /\ a[2].ok) =>
                      parsed.res = IF a[2].v.t = "obj" THEN a[2].v ELSE NoneVal

\* ------------------------------------------------------------------
\* The editor's dot-path operations on a metadata document (SpecPath).
\* A document is a mapping from keys to values; a value is a scalar or
\* a nested mapping.  fn_in is the document j and the operation main
\* applies to it; fn_out is the document after the operation.
\* ------------------------------------------------------------------
Scalar(v) == [t |-> "val", v |-> v, m |-> <<>>]
Mapping(m) == [t |-> "map", v |-> <<>>, m |-> m]
IsDict(x) == x.t = "map"

\* dict[k] = v and dict.pop(k, None)
Put(m, k, v) == [x \in (DOMAIN m) \cup {k} |-> IF x = k THEN v ELSE m[x]]
Drop(m, k) == [x \in (DOMAIN m) \ {k} |-> m[x]]

\* path.split(".")
RECURSIVE SplitDots(_)
SplitDots(s) ==
    IF "." \notin Range(s) THEN <<s>>
    ELSE \* the first dot
         LET i == CHOOSE j \in DOMAIN s : s[j] = "." /\ \A k \in 1..(j - 1) : s[k] # "."
         IN <<SubSeq(s, 1, i - 1)>> \o SplitDots(SubSeq(s, i + 1, Len(s)))

\* set_path with the non-mapping intermediates left alone (a mutation of set_path)
RECURSIVE WalkSetKeeping(_, _, _)
WalkSetKeeping(node, parts, value) ==
    IF Len(parts) = 1 THEN Put(node, parts[1], value)
    ELSE IF parts[1] \in DOMAIN node /\ ~IsDict(node[parts[1]]) THEN node
    ELSE Put(node, parts[1],
             Mapping(WalkSetKeeping(IF parts[1] \in DOMAIN node THEN node[parts[1]].m ELSE <<>>,
                                    Tail(parts), value)))

\* set_path, from the mapping node on, over the remaining parts
RECURSIVE WalkSet(_, _, _)
WalkSet(node, parts, value) ==
    IF Len(parts) = 1 THEN Put(node, parts[1], value)
    ELSE Put(node, parts[1],
             Mapping(WalkSet(IF parts[1] \in DOMAIN node /\ IsDict(node[parts[1]])
                                 THEN node[parts[1]].m ELSE <<>>,
                             Tail(parts), value)))

set_path_KeepScalar(root, path, value) == WalkSetKeeping(root, SplitDots(path), value)

set_path(root, path, value) == WalkSet(root, SplitDots(path), value)

\* remove_path: returns at an intermediate that is absent or no mapping
RECURSIVE WalkRemove(_, _)
WalkRemove(node, parts) ==
    IF Len(parts) = 1 THEN Drop(node, parts[1])
    ELSE IF parts[1] \notin DOMAIN node \/ ~IsDict(node[parts[1]]) THEN node
    ELSE Put(node, parts[1], Mapping(WalkRemove(node[parts[1]].m, Tail(parts))))

remove_path(root, path) == WalkRemove(root, SplitDots(path))

\* What the walk over parts finds: the value at the leaf, when every
\* intermediate is a mapping and the leaf is a key of the last one.
NotFound == [found |-> FALSE, val |-> Scalar(<<>>)]
Found(v) == [found |-> TRUE, val |-> v]
RECURSIVE Walk(_, _)
Walk(node, parts) ==
    IF Len(parts) = 1
    THEN IF parts[1] \in DOMAIN node THEN Found(node[parts[1]]) ELSE NotFound
    ELSE IF parts[1] \notin DOMAIN node \/ ~IsDict(node[parts[1]]) THEN NotFound
    ELSE Walk(node[parts[1]].m, Tail(parts))

\* rename_key: pops the old leaf when the walk reaches it, then set_path(root, new, val)
rename_key(root, old, new) ==
    LET w == Walk(root, SplitDots(old))
    IN IF w.found THEN set_path(remove_path(root, old), new, w.val) ELSE root

\* The documents and the operations of the runs.
PathKeys == {<<"a">>, <<"b">>, <<"c">>, <<"x">>}
MapsOver(K, V) == UNION {[S -> V] : S \in SUBSET K}
One == Scalar(<<"1">>)
Two == Scalar(<<"2">>)
ThirdLevel == {One} \cup {Mapping(m) : m \in MapsOver({<<"c">>, <<"x">>}, {One})}
SecondLevel == {One} \cup {Mapping(m) : m \in MapsOver({<<"b">>, <<"x">>}, ThirdLevel)}
PathDocs == MapsOver({<<"a">>, <<"x">>}, SecondLevel)
DotPaths == {<<"a", ".", "b", ".", "c">>, <<"a", ".", "b">>, <<"a">>, <<"x">>, <<"a", ".", "x">>}
ABC == <<"a", ".", "b", ".", "c">>

PathInit ==
    /\ fn_in \in PathDocs
    /\ fn_out = NotCalled

Applied(op, path, new, after) ==
    Returned([op |-> op, path |-> path, new |-> new, before |-> fn_in, after |-> after])

\* main: for (k, v) in sets: set_path(j, k, v)
SetPath ==
    /\ fn_out = NotCalled
    /\ \E path \in DotPaths :
          fn_out' = Applied("set", path, <<>>, set_path(fn_in, path, Two))
    /\ UNCHANGED <<fn_in, outsideCall>>

\* main: for k in args.removes: remove_path(j, k)
RemovePath ==
    /\ fn_out = NotCalled
    /\ \E path \in DotPaths :
          fn_out' = Applied("remove", path, <<>>, remove_path(fn_in, path))
    /\ UNCHANGED <<fn_in, outsideCall>>

\* main: for (old, new) in renames: rename_key(j, old, new)
RenameKey ==
    /\ fn_out = NotCalled
    /\ \E old \in DotPaths, new \in DotPaths :
          fn_out' = Applied("rename", old, new, rename_key(fn_in, old, new))
    /\ UNCHANGED <<fn_in, outsideCall>>

\* ---- C22 ----
IsPrefix(p, q) == Len(p) <= Len(q) /\ SubSeq(q, 1, Len(p)) = p
Comparable(p, q) == IsPrefix(p, q) \/ IsPrefix(q, p)
ProperPrefixes(parts) == {SubSeq(parts, 1, n) : n \in 1..(Len(parts) - 1)}
ProbePaths == UNION {[1..n -> PathKeys] : n \in 1..3}
IsMappingAt(d, parts) == \E w \in {Walk(d, parts)} : w.found /\ IsDict(w.val)
Walkable(d, parts) == \A q \in ProperPrefixes(parts) : IsMappingAt(d, q)
\* the keys away from the path parts are as they were
OffPathKept(r, parts) ==
    \A q \in ProbePaths : ~Comparable(q, parts) => Walk(r.after, q) = Walk(r.before, q)

\* C22 as stated: each of set, remove and rename on a dot-path leaves
\* every intermediate of the path a mapping (created when absent, a
\* fresh one in place of a non-mapping), sets, removes or renames the
\* leaf, and leaves the keys off the path unchanged.
C22_AllThreeCreate ==
    fn_out.done =>
      \A r \in {fn_out.value} : \A parts \in {SplitDots(r.path)} :
        /\ Walkable(r.after, parts) \/ (r.op = "rename" /\ ~Walk(r.before, parts).found)
        /\ r.op = "set" => Walk(r.after, parts) = Found(Two)
        /\ r.op = "remove" => ~Walk(r.after, parts).found
        /\ OffPathKept(r, parts)

\* C22 as the code has it: set_path creates the absent intermediates,
\* puts a fresh mapping in place of a non-mapping one and sets the leaf;
\* remove_path and the old path of rename_key only walk the mappings
\* that exist and leave the document as it was when an intermediate is
\* absent or no mapping (or, for rename, the old leaf is absent); the
\* new path of rename_key is written as set_path writes.  Keys off the
\* paths stay.
C22_DotPathSemantics ==
    fn_out.done =>
      \A r \in {fn_out.value} : \A parts \in {SplitDots(r.path)} :
        /\ r.op = "set" =>
              /\ Walkable(r.after, parts)
              /\ Walk(r.after, parts) = Found(Two)
              /\ OffPathKept(r, parts)
        /\ r.op = "remove" =>
              IF Walkable(r.before, parts)
              THEN ~Walk(r.after, parts).found /\ OffPathKept(r, parts)
              ELSE r.after = r.before
        /\ r.op = "rename" =>
              \A to \in {SplitDots(r.new)} : \A w \in {Walk(r.before, parts)} :
                IF w.found
                THEN /\ Walkable(r.after, to)
                     /\ Walk(r.after, to) = w
                     /\ Comparable(parts, to) \/ ~Walk(r.after, parts).found
                     /\ \A q \in ProbePaths :
                           (~Comparable(q, parts) /\ ~Comparable(q, to))
                              => Walk(r.after, q) = Walk(r.before, q)
                ELSE r.after = r.before

\* set_path on a.b.c has put a fresh mapping where a held a scalar
C22_Witness ==
    /\ fn_out.done
    /\ fn_out.value.op = "set"
    /\ fn_out.value.path = ABC
    /\ <<"a">> \in DOMAIN fn_out.value.before
    /\ ~IsDict(fn_out.value.before[<<"a">>])
    /\ Walk(fn_out.value.after, SplitDots(ABC)) = Found(Two)

\* ------------------------------------------------------------------
\* The editor's choice of the documents to edit (SpecScope).  fn_in is
\* the call filter_scope(paths, scope_set, prefer_primary,
\* include_mod_info); fn_out is the list it returns.
\* ------------------------------------------------------------------
MaxInfos == 3

\* The info.json entries list_infos may return, as the segments between "/".
InfoPool ==
    { <<"vehicles", "v", "info.json">>,
      <<"vehicles", "w", "Info.JSON">>,
      <<"levels", "m", "info.json">>,
      <<"LEVELS", "n", "info.json">>,
      <<"mod_info", "x", "info.json">>,
      <<"other", "info.json">> }

ScopeNames == {"vehicles", "levels", "mod_info"}

\* p.split("/")[0].lower()
TopOf(p) == Lower(p[1])

filter_scope(paths, scope_set, prefer_primary, include_mod_info) ==
    LET vehicles == SelectSeq(paths, LAMBDA p : TopOf(p) = "vehicles")
        levels == SelectSeq(paths, LAMBDA p : TopOf(p) = "levels")
        modinfo == SelectSeq(paths, LAMBDA p : TopOf(p) = "mod_info")
        add_if(ps, allowed) ==
            IF allowed THEN SelectSeq(ps, LAMBDA p : TopOf(p) \in scope_set) ELSE <<>>
        prim == IF vehicles # <<>> THEN vehicles ELSE levels
        chosen ==
            IF prefer_primary /\ (vehicles # <<>> \/ levels # <<>>)
            THEN add_if(prim, TRUE)
                   \o (IF include_mod_info /\ "mod_info" \in scope_set THEN modinfo ELSE <<>>)
            ELSE add_if(vehicles, "vehicles" \in scope_set)
                   \o add_if(levels, "levels" \in scope_set)
                   \o (IF "mod_info" \in scope_set THEN modinfo ELSE <<>>)
    IN Distinct(chosen)

\* main, lines 186-189: the scope set is not empty when the walk starts
ScopeInit ==
    /\ \E scope_set \in (SUBSET ScopeNames) \ {{}}, prefer_primary \in BOOLEAN,
          include_mod_info \in BOOLEAN :
          fn_in = [paths |-> <<>>, scope_set |-> scope_set,
                   prefer_primary |-> prefer_primary,
                   include_mod_info |-> include_mod_info]
    /\ fn_out = NotCalled

\* list_infos: one more info.json entry of the archive
AddInfo ==
    /\ fn_out = NotCalled
    /\ Len(fn_in.paths) < MaxInfos
    /\ \E p \in InfoPool : fn_in' = [fn_in EXCEPT !.paths = Append(@, p)]
    /\ UNCHANGED <<fn_out, outsideCall>>

\* main, line 216
FilterScope ==
    /\ fn_out = NotCalled
    /\ fn_out' = Returned(filter_scope(fn_in.paths, fn_in.scope_set,
                                       fn_in.prefer_primary, fn_in.include_mod_info))
    /\ UNCHANGED <<fn_in, outsideCall>>

PrimaryDocs(paths) == {p \in Range(paths) : TopOf(p) \in {"vehicles", "levels"}}
ModInfoDocs(paths) == {p \in Range(paths) : TopOf(p) = "mod_info"}
NoDuplicates(s) == \A i, j \in DOMAIN s : s[i] = s[j] => i = j

\* C24: with --prefer-primary and scope "all", when the archive has an
\* info.json under vehicles/ or levels/, the targets are all of the
\* vehicles/ and levels/ documents, nothing outside them except the
\* mod_info documents, which are targets exactly when
\* --include-mod-info is given; the list has no duplicates and every
\* target's top-level segment is in the scope set.
C24_PreferPrimaryTargets ==
    (/\ fn_out.done
     /\ fn_in.prefer_primary
     /\ fn_in.scope_set = ScopeNames
     /\ PrimaryDocs(fn_in.paths) # {})
    => \A targets \in {fn_out.value} :
          /\ PrimaryDocs(fn_in.paths) \subseteq Range(targets)
          /\ Range(targets) \subseteq PrimaryDocs(fn_in.paths) \cup ModInfoDocs(fn_in.paths)
          /\ fn_in.include_mod_info => ModInfoDocs(fn_in.paths) \subseteq Range(targets)
          /\ ~fn_in.include_mod_info => Range(targets) \cap ModInfoDocs(fn_in.paths) = {}
          /\ NoDuplicates(targets)
          /\ \A i \in DOMAIN targets : TopOf(targets[i]) \in fn_in.scope_set

\* What does hold of every call: the targets are distinct entries of the
\* archive whose top-level segment is in the scope set.
TargetsDistinctInScope ==
    fn_out.done =>
      \A targets \in {fn_out.value} :
          /\ NoDuplicates(targets)
          /\ Range(targets) \subseteq Range(fn_in.paths)
          /\ \A i \in DOMAIN targets : TopOf(targets[i]) \in fn_in.scope_set

\* ------------------------------------------------------------------
\* The editor's rewritten archive (SpecBuild).  An archive is the
\* sequence of its entries; an entry name is the sequence of its
\* segments and separators as zipfile reports it on a POSIX system
\* (a backslash is then an ordinary character of the name).  fn_in is
\* the archive, fn_out what lines 227-239 make of it.
\* ------------------------------------------------------------------
MaxMembers == 3

Slash == "/"
Backslash == "\\"
MemberNames ==
    { <<"vehicles", Slash, "x", Slash, "info.json">>,
      <<"vehicles", Slash, "x", Backslash, "info.json">>,
      <<"vehicles", Backslash, "x", Slash, "info.json">>,
      <<"levels", Slash, "m", Slash, "Info.JSON">>,
      <<"readme.txt">> }

\* The payloads: a JSON document (given by the mapping it holds) or other bytes.
JsonBytes(j) == [kind |-> "json", j |-> j]
OtherBytes == [kind |-> "bytes", j |-> <<>>]
Payloads == {JsonBytes(<<"a">> :> One), OtherBytes}

\* safe_load_json with line 233: what is no JSON object is {}
Loaded(data) == IF data.kind = "json" THEN data.j ELSE <<>>

\* json.dumps(...).encode("utf-8")
Dumps(j) == JsonBytes(j)

\* name.replace("\\", "/")
Normalized(name) == [i \in DOMAIN name |-> IF name[i] = Backslash THEN Slash ELSE name[i]]

\* os.path.basename(name).lower() == "info.json": what follows the last "/"
IsInfoName(name) ==
    /\ Lower(name[Len(name)]) = "info.json"
    /\ Len(name) = 1 \/ name[Len(name) - 1] = Slash

list_infos(zf) ==
    LET listed == SelectSeq(zf, LAMBDA e : IsInfoName(e.name))
    IN [i \in DOMAIN listed |-> Normalized(listed[i].name)]

\* zf2.open(ip): the last entry of that very name, a KeyError without one
HasMember(zf, ip) == \E i \in DOMAIN zf : zf[i].name = ip
Member(zf, ip) ==
    zf[CHOOSE i \in DOMAIN zf : zf[i].name = ip /\ \A k \in DOMAIN zf : zf[k].name = ip => k <= i]

\* lines 234-237 with --set a.b=2
EditedMapping(data) == set_path(Loaded(data), <<"a", ".", "b">>, Two)

build_edited_zip(zin, edits) ==
    [i \in DOMAIN zin |->
        IF Normalized(zin[i].name) \in DOMAIN edits
        THEN [name |-> zin[i].name, data |-> Dumps(edits[Normalized(zin[i].name)])]
        ELSE zin[i]]

BuildInit ==
    /\ fn_in = <<>>
    /\ fn_out = NotCalled

AddMember ==
    /\ fn_out = NotCalled
    /\ Len(fn_in) < MaxMembers
    /\ \E name \in MemberNames, data \in Payloads :
          fn_in' = Append(fn_in, [name |-> name, data |-> data])
    /\ UNCHANGED <<fn_out, outsideCall>>

NoEdits == [status |-> "none", targets |-> <<>>, edits |-> <<>>, out |-> <<>>]

\* main, lines 214-239 with scope "all" and --apply
EditArchive ==
    /\ fn_out = NotCalled
    /\ \E targets \in {filter_scope(list_infos(fn_in), ScopeNames, FALSE, FALSE)} :
          IF targets = <<>>
          THEN fn_out' = Returned([NoEdits EXCEPT !.status = "skip"])
          ELSE IF \E ip \in Range(targets) : ~HasMember(fn_in, ip)
          THEN fn_out' = Returned([NoEdits EXCEPT !.status = "error", !.targets = targets])
          ELSE \E edits \in {[ip \in Range(targets) |-> EditedMapping(Member(fn_in, ip).data)]} :
                  fn_out' = Returned([status |-> "built", targets |-> targets, edits |-> edits,
                                      out |-> build_edited_zip(fn_in, edits)])
    /\ UNCHANGED <<fn_in, outsideCall>>

\* The entries main selected: the info.json entries whose path is a target.
SelectedEntry(e, targets) == IsInfoName(e.name) /\ Normalized(e.name) \in Range(targets)

\* C23: the edited archive has the entry names of the original in the
\* same order; every entry that is not a selected metadata document
\* has the payload of the original; every selected metadata entry
\* holds the serialization of its edited mapping.
C23_EditedArchiveContent ==
    (fn_out.done /\ fn_out.value.status = "built") =>
      \A r \in {fn_out.value} :
        /\ Len(r.out) = Len(fn_in)
        /\ \A i \in DOMAIN fn_in :
              /\ r.out[i].name = fn_in[i].name
              /\ IF SelectedEntry(fn_in[i], r.targets)
                 THEN r.out[i].data = Dumps(r.edits[Normalized(fn_in[i].name)])
                 ELSE r.out[i].data = fn_in[i].data

\* What does hold: the names and their order stay, and an entry is
\* rewritten exactly when its name with "/" for every backslash is a target.
RewrittenByNormalizedName ==
    (fn_out.done /\ fn_out.value.status = "built") =>
      \A r \in {fn_out.value} :
        /\ Len(r.out) = Len(fn_in)
        /\ \A i \in DOMAIN fn_in :
              /\ r.out[i].name = fn_in[i].name
              /\ IF Normalized(fn_in[i].name) \in Range(r.targets)
                 THEN r.out[i].data = Dumps(r.edits[Normalized(fn_in[i].name)])
                 ELSE r.out[i].data = fn_in[i].data

\* ------------------------------------------------------------------
\* updatebeamng's run with its thread pool (SpecPool).  The coordinating
\* thread submits one task per archive, collects the results with
\* as_completed, leaves the pool and only then opens the outputs.  The
\* worker threads take the tasks in the order of submission.
\* as_completed yields first the futures already finished when it is
\* called (a set: in no particular order), then the others as they
\* finish.
\* ------------------------------------------------------------------
MaxTasks == 3
MaxWorkers == 2

\* What process_zip meets: a readable archive, one with a cell longer
\* than the limit, a corrupt one (caught inside process_zip), and a path
\* whose os.stat fails (get_file_info is outside the try: the task raises).
TaskKinds == {"ok", "long", "bad", "raise"}

PoolIdle ==
    /\ zips = <<>> /\ workers = 0 /\ fut = <<>> /\ completion = <<>>
    /\ snapshot = {} /\ early = {} /\ waiter = <<>> /\ wrows = <<>> /\ wfiles = <<>> /\ wpc = "idle"

Closed == [opened |-> FALSE, csv |-> <<>>, jsonl |-> <<>>]

PoolInit ==
    /\ \E n \in 0..MaxTasks : zips \in [1..n -> TaskKinds]
    /\ workers \in 1..MaxWorkers
    /\ fut = [i \in DOMAIN zips |-> "new"]
    /\ completion = <<>>
    /\ snapshot = {}
    /\ early = {}
    /\ waiter = <<>>
    /\ wrows = <<>>
    /\ wfiles = Closed
    /\ wpc = "submit"

\* process_zip: the row of one archive, built from the archive alone
process_zip(i) ==
    [file_path |-> i, row_id |-> "id",
     zip_error |-> IF zips[i] = "bad" THEN "BadZipFile" ELSE ""]

\* The loop body of lines 428-432 without the except clause (a mutation of Collected).
Collected_NoExcept(rs, i) ==
    IF zips[i] = "raise" THEN rs ELSE Append(rs, process_zip(i))

\* Lines 428-432: fut.result() is the row, or raises what the task raised
Collected(rs, i) ==
    IF zips[i] = "raise"
    THEN Append(rs, [file_path |-> i, row_id |-> "", zip_error |-> "OSError"])
    ELSE Append(rs, process_zip(i))

\* Line 426: ex.submit for the next archive of the list
PoolSubmit ==
    /\ wpc = "submit"
    /\ \E i \in DOMAIN zips :
          /\ fut[i] = "new"
          /\ \A k \in 1..(i - 1) : fut[k] # "new"
          /\ fut' = [fut EXCEPT ![i] = "pending"]
    /\ UNCHANGED <<zips, workers, completion, snapshot, early, waiter, wrows, wfiles, wpc>>
    /\ UNCHANGED outsidePool

\* A free worker thread takes the oldest task of the queue.
TaskStart ==
    /\ Cardinality({k \in DOMAIN zips : fut[k] = "running"}) < workers
    /\ \E i \in DOMAIN zips :
          /\ fut[i] = "pending"
          /\ \A k \in 1..(i - 1) : fut[k] # "pending"
          /\ fut' = [fut EXCEPT ![i] = "running"]
    /\ UNCHANGED <<zips, workers, completion, snapshot, early, waiter, wrows, wfiles, wpc>>
    /\ UNCHANGED outsidePool

\* process_zip returns or raises in its worker thread: the future is
\* finished, and a waiter installed by as_completed is told.
TaskFinish ==
    /\ \E i \in DOMAIN zips :
          /\ fut[i] = "running"
          /\ fut' = [fut EXCEPT ![i] = "finished"]
          /\ completion' = Append(completion, i)
          /\ waiter' = IF wpc = "collect" THEN Append(waiter, i) ELSE waiter
    /\ UNCHANGED <<zips, workers, snapshot, early, wrows, wfiles, wpc>>
    /\ UNCHANGED outsidePool

\* Line 427: as_completed(fut_map) is entered once every task is submitted
AsCompleted ==
    /\ wpc = "submit"
    /\ \A i \in DOMAIN zips : fut[i] # "new"
    /\ snapshot' = {i \in DOMAIN zips : fut[i] = "finished"}
    /\ early' = snapshot'
    /\ wpc' = "collect"
    /\ UNCHANGED <<zips, workers, fut, completion, waiter, wrows, wfiles>>
    /\ UNCHANGED outsidePool

\* Lines 427-432: the next future as_completed yields, and its row
Collect ==
    /\ wpc = "collect"
    /\ IF early # {}
       THEN \E i \in early :
               /\ early' = early \ {i}
               /\ wrows' = Collected(wrows, i)
               /\ UNCHANGED waiter
       ELSE /\ waiter # <<>>
            /\ wrows' = Collected(wrows, Head(waiter))
            /\ waiter' = Tail(waiter)
            /\ UNCHANGED early
    /\ UNCHANGED <<zips, workers, fut, completion, snapshot, wfiles, wpc>>
    /\ UNCHANGED outsidePool

\* as_completed is exhausted when every future was yielded; the with
\* block of line 425 is left (shutdown(wait=True))
PoolExit ==
    /\ wpc = "collect"
    /\ early = {} /\ waiter = <<>>
    /\ \A i \in DOMAIN zips : fut[i] = "finished"
    /\ wpc' = "open"
    /\ UNCHANGED <<zips, workers, fut, completion, snapshot, early, waiter, wrows, wfiles>>
    /\ UNCHANGED outsidePool

Written(what) == [by |-> "main", what |-> what]

\* Lines 447-450: both outputs are opened, the header is written
OpenOutputs ==
    /\ wpc = "open"
    /\ wfiles' = [opened |-> TRUE, csv |-> <<Written(0)>>, jsonl |-> <<>>]
    /\ wpc' = "write"
    /\ UNCHANGED <<zips, workers, fut, completion, snapshot, early, waiter, wrows>>
    /\ UNCHANGED outsidePool

\* Lines 451-480: one row of the list, and its sidecar line if a cell was cut
WriteOutputRow ==
    /\ wpc = "write"
    /\ Len(wfiles.csv) <= Len(wrows)
    /\ \E r \in {wrows[Len(wfiles.csv)]} :
          wfiles' = [wfiles EXCEPT
                       !.csv = Append(@, Written(r.file_path)),
                       !.jsonl = IF zips[r.file_path] = "long"
                                 THEN Append(@, Written(r.file_path)) ELSE @]
    /\ UNCHANGED <<zips, workers, fut, completion, snapshot, early, waiter, wrows, wpc>>
    /\ UNCHANGED outsidePool

\* The with block of line 447 is left
CloseOutputs ==
    /\ wpc = "write"
    /\ Len(wfiles.csv) = Len(wrows) + 1
    /\ wfiles' = [wfiles EXCEPT !.opened = FALSE]
    /\ wpc' = "done"
    /\ UNCHANGED <<zips, workers, fut, completion, snapshot, early, waiter, wrows>>
    /\ UNCHANGED outsidePool

\* ---- C21 ----
PathsOf(rs) == [k \in DOMAIN rs |-> rs[k].file_path]
OutputsTouched == wfiles # Closed
\* the outputs are the coordinating thread's, and untouched while a task is unfinished
OutputsAfterAllTasks ==
    /\ OutputsTouched => \A i \in DOMAIN zips : fut[i] = "finished"
    /\ \A w \in Range(wfiles.csv) \cup Range(wfiles.jsonl) : w.by = "main"
\* during the collection, every finished task is yielded, or waits to be, once
CollectedOnce ==
    wpc = "collect" =>
        /\ \A k \in DOMAIN wrows : fut[wrows[k].file_path] = "finished"
        /\ Len(wrows) + Cardinality(early) + Len(waiter)
              = Cardinality({i \in DOMAIN zips : fut[i] = "finished"})
        /\ \A k \in DOMAIN wrows : wrows[k].file_path \notin early \cup Range(waiter)
\* one row per discovered archive, once the pool is left
OneRowPerArchive ==
    wpc \in {"open", "write", "done"} =>
        /\ Len(wrows) = Len(zips)
        /\ \A i \in DOMAIN zips : Cardinality({k \in DOMAIN wrows : wrows[k].file_path = i}) = 1
        /\ \A k \in DOMAIN wrows : (wrows[k].row_id = "") = (zips[wrows[k].file_path] = "raise")
\* C21 as stated: the outputs are opened and written by the coordinating
\* thread only, after every submitted task has completed; the row list
\* ends with one row per discovered archive, also for a task that
\* raised; the order of the rows is the order of completion.
C21_RowsInCompletionOrder ==
    /\ OutputsAfterAllTasks
    /\ CollectedOnce
    /\ OneRowPerArchive
    /\ wpc \in {"open", "write", "done"} => PathsOf(wrows) = completion

\* C21 as the code has it: the same, but for the order.  The rows of the
\* tasks that finished before as_completed was entered come first, in
\* no particular order; the rows of the others follow in the order of
\* completion.
C21_PoolDiscipline ==
    /\ OutputsAfterAllTasks
    /\ CollectedOnce
    /\ OneRowPerArchive
    /\ wpc \in {"collect", "open", "write", "done"} =>
          \A n \in {Cardinality(snapshot)} :
              /\ \A k \in DOMAIN wrows : k <= n => wrows[k].file_path \in snapshot
              /\ \A k \in DOMAIN wrows : k > n => wrows[k].file_path = completion[k]

\* a finished run with the row of a task that raised, and with rows that
\* are not in the order of completion
C21_Witness ==
    /\ wpc = "done"
    /\ \E k \in DOMAIN wrows : wrows[k].row_id = "" /\ zips[wrows[k].file_path] = "raise"
    /\ Len(wrows) = MaxTasks
    /\ PathsOf(wrows) # completion
    /\ wfiles.jsonl # <<>>

InitEdit == EditInit /\ SelectIdle /\ ParseIdle /\ TruncIdle /\ CallIdle /\ RenameIdle /\ ExtractIdle /\ PoolIdle

NextEdit ==
    \/ Scan
    \/ Build
    \/ Validate
    \/ RemoveBak
    \/ MoveToBak
    \/ MoveIntoPlace
    \/ Summary

SpecEdit == InitEdit /\ [][NextEdit]_vars

InitSelect == SelectInit /\ EditIdle /\ ParseIdle /\ TruncIdle /\ CallIdle /\ RenameIdle /\ ExtractIdle /\ PoolIdle

NextSelect ==
    \/ AddEntry
    \/ ProcessZip

SpecSelect == InitSelect /\ [][NextSelect]_vars

InitParse == ParseInit /\ EditIdle /\ SelectIdle /\ TruncIdle /\ CallIdle /\ RenameIdle /\ ExtractIdle /\ PoolIdle

NextParse ==
    \/ AddBOM
    \/ AddTrailingComma
    \/ AddBlockComment
    \/ AddLineComment
    \/ Parse

SpecParse == InitParse /\ [][NextParse]_vars

InitTrunc == TruncInit /\ EditIdle /\ SelectIdle /\ ParseIdle /\ CallIdle /\ RenameIdle /\ ExtractIdle /\ PoolIdle

NextTrunc ==
    \/ AppendRow
    \/ WriteRow

SpecTrunc == InitTrunc /\ [][NextTrunc]_vars

InitAgg == AggInit /\ EditIdle /\ SelectIdle /\ ParseIdle /\ TruncIdle /\ RenameIdle /\ ExtractIdle /\ PoolIdle

NextAgg ==
    \/ AddFieldMap
    \/ Aggregate

SpecAgg == InitAgg /\ [][NextAgg]_vars

InitNorm == NormInit /\ EditIdle /\ SelectIdle /\ ParseIdle /\ TruncIdle /\ RenameIdle /\ ExtractIdle /\ PoolIdle

NextNorm ==
    \/ SetDocKey
    \/ Normalize

SpecNorm == InitNorm /\ [][NextNorm]_vars

InitTime == TimeInit /\ EditIdle /\ SelectIdle /\ ParseIdle /\ TruncIdle /\ RenameIdle /\ ExtractIdle /\ PoolIdle

NextTime ==
    \/ AppendDigit
    \/ Humanize

SpecTime == InitTime /\ [][NextTime]_vars

InitName == NameInit /\ EditIdle /\ SelectIdle /\ ParseIdle /\ TruncIdle /\ RenameIdle /\ ExtractIdle /\ PoolIdle

NextName ==
    \/ SetField
    \/ PlanVehicle

SpecName == InitName /\ [][NextName]_vars

InitRename == RenameInit /\ EditIdle /\ SelectIdle /\ ParseIdle /\ TruncIdle /\ CallIdle /\ ExtractIdle /\ PoolIdle

NextRename ==
    \/ Visit
    \/ PrintSummary

SpecRename == InitRename /\ [][NextRename]_vars

InitBatch ==
    /\ \/ EditInit /\ RenameIdle
       \/ RenameInit /\ EditIdle
    /\ SelectIdle /\ ParseIdle /\ TruncIdle /\ CallIdle /\ ExtractIdle /\ PoolIdle

NextBatch ==
    \/ Scan
    \/ Build
    \/ Validate
    \/ RemoveBak
    \/ MoveToBak
    \/ MoveIntoPlace
    \/ Summary
    \/ Visit
    \/ PrintSummary

\* main runs on for as long as it has a step to take.
SpecBatch == InitBatch /\ [][NextBatch]_vars /\ WF_vars(NextBatch)

InitKind == KindInit /\ EditIdle /\ SelectIdle /\ ParseIdle /\ TruncIdle /\ RenameIdle /\ ExtractIdle /\ PoolIdle

NextKind ==
    \/ AddKindEntry
    \/ FindKind

SpecKind == InitKind /\ [][NextKind]_vars

InitExtract ==
    /\ ExtractInit
    /\ EditIdle /\ SelectIdle /\ ParseIdle /\ TruncIdle /\ CallIdle /\ RenameIdle /\ PoolIdle

NextExtract ==
    \/ ExtractOne
    \/ ExtractDone

SpecExtract == InitExtract /\ [][NextExtract]_vars

InitUi == UiInit /\ EditIdle /\ SelectIdle /\ ParseIdle /\ TruncIdle /\ RenameIdle /\ ExtractIdle /\ PoolIdle

NextUi ==
    \/ AddSegment
    \/ Classify

SpecUi == InitUi /\ [][NextUi]_vars

InitHeaders == HeadersInit /\ EditIdle /\ SelectIdle /\ ParseIdle /\ TruncIdle /\ RenameIdle /\ ExtractIdle /\ PoolIdle

NextHeaders ==
    \/ AppendKeys
    \/ Headers

SpecHeaders == InitHeaders /\ [][NextHeaders]_vars

InitPath == PathInit /\ EditIdle /\ SelectIdle /\ ParseIdle /\ TruncIdle /\ RenameIdle /\ ExtractIdle /\ PoolIdle

NextPath ==
    \/ SetPath
    \/ RemovePath
    \/ RenameKey

SpecPath == InitPath /\ [][NextPath]_vars

InitScope == ScopeInit /\ EditIdle /\ SelectIdle /\ ParseIdle /\ TruncIdle /\ RenameIdle /\ ExtractIdle /\ PoolIdle

NextScope ==
    \/ AddInfo
    \/ FilterScope

SpecScope == InitScope /\ [][NextScope]_vars

InitBuild == BuildInit /\ EditIdle /\ SelectIdle /\ ParseIdle /\ TruncIdle /\ RenameIdle /\ ExtractIdle /\ PoolIdle

NextBuild ==
    \/ AddMember
    \/ EditArchive

SpecBuild == InitBuild /\ [][NextBuild]_vars

InitPool ==
    /\ PoolInit
    /\ EditIdle /\ SelectIdle /\ ParseIdle /\ TruncIdle /\ CallIdle /\ RenameIdle /\ ExtractIdle

NextPool ==
    \/ PoolSubmit
    \/ TaskStart
    \/ TaskFinish
    \/ AsCompleted
    \/ Collect
    \/ PoolExit
    \/ OpenOutputs
    \/ WriteOutputRow
    \/ CloseOutputs

SpecPool == InitPool /\ [][NextPool]_vars

====
